---------------------------- MODULE Spec2Model ----------------------------
(***************************************************************************)
(* Gauge: the spec-info gatherer (api/infoGatherer), the API service that  *)
(* starts it (api), the tag-expression scenario filter (filter) and the    *)
(* console reporter (reporter).                                            *)
(*                                                                         *)
(* Several state machines share this module.                               *)
(*   Spec        the gatherer: the initialising task, the watcher task,    *)
(*               the watcher's event goroutine and an API reader,          *)
(*               interleaved over the wait group, the mutex and the three  *)
(*               caches.  SpecProject starts it on an existing project,    *)
(*               FairSpec runs it under fair scheduling.                   *)
(*   SpecTags    one ScenarioFilterBasedOnTags / validateTagExpression     *)
(*               call, step by step over the expression string.  FairTags  *)
(*               runs it to its end on short expressions, SpecSeq makes    *)
(*               further calls of Filter on the same instance.             *)
(*   SpecAPI     the API message handler serving one connection.           *)
(*   SpecIndex   the index filter applied to a specification's items.      *)
(*   FairDaemon  runAPIServiceIndefinitely with its two goroutines.        *)
(*   SpecStreams the parallel execution's stream count and aggregation.    *)
(*   SpecConsole the colored console reporter under nested events.         *)
(* Go strings are sequences of one-character strings.                      *)
(***************************************************************************)
EXTENDS Integers, Sequences, FiniteSets, TLC

VARIABLES
    \* ---- SpecInfoGatherer (part_002:38-45) and its environment
    wg,                 \* waitGroup counter
    mutex,              \* holder of s.mutex, or "free"
    conceptDictionary,  \* [alloc, concepts]
    specsCache,         \* [alloc, m]: file -> sequence of specifications
    conceptsCache,      \* [alloc, m]: file -> sequence of concepts
    stepsCache,         \* [alloc, m]: step signature -> StepValue
    disk,               \* the project's files: path -> content
    watched,            \* directories the fsnotify watcher is subscribed to
    events,             \* watcher.Events, oldest first
    fsOps,              \* file-system changes made so far
    accepting,          \* HandleMultipleConnections is running
    panicked,           \* a goroutine panicked: the process is gone
    mpc, mloc,          \* initialising task: position, locals
    wpc, wloc,          \* watchForFileChanges: position, locals
    epc, eloc,          \* event goroutine: position, locals
    rpc, rloc,          \* API reader: position, locals
    \* ---- ScenarioFilterBasedOnTags (part_000:39-42) and one call on it
    tpc,                \* position in the call
    item,               \* the item Filter is called on
    specTags,           \* filter.specTags
    tagExp,             \* the expression the filter was constructed with
    tagExpression,      \* filter.tagExpression
    tagsMap,            \* the scenario's effective tags (spaces removed)
    mode,               \* "filter" (Filter) or "validate" (validateTagExpression)
    expToBeEvaluated,   \* the working string
    value, err,         \* what formatAndEvaluateExpression returned
    result,             \* Filter's verdict / validate's outcome
    \* ---- the calls of Filter made on the instance before this one
    decisions,          \* per call: the item was a scenario, its tags map, the verdict
    \* ---- gaugeAPIMessageHandler (part_001:139-142) serving one connection
    apc,                \* position in MessageBytesReceived
    bytesRead,          \* the bytes received: [ok, message]
    apiMessage,         \* the decoded request
    herr,               \* the error a handler has met
    responseMessage,    \* the response being built
    connection,         \* the responses written to the connection, oldest first
    received,           \* the inputs read from the connection, oldest first
    \* ---- scenarioIndexFilterToRetain (part_000:35-38) applied to a specification
    ipc,                \* "new", "Filter" or "off"
    ifilter,            \* [indexToNotFilter, currentScenarioIndex]
    specItems,          \* the specification's items, in order
    removed,            \* what Filter returned for the items so far, in order
    \* ---- the daemon: runAPIServiceIndefinitely (part_001:93-118)
    dpc,                \* runAPIServiceIndefinitely: position
    spc,                \* its StartAPIService goroutine: position
    cpc,                \* its checkParentIsAlive goroutine: position
    port,               \* the API port
    populated,          \* MakeListOfAvailableSteps has returned
    parentAlive,        \* the process that started the daemon is running
    parentProcessID,    \* checkParentIsAlive's local: whose pid it polls
    adopterRunning,     \* what IsProcessRunning says of the process that adopts orphans
    RunnerChan,         \* the goroutines blocked sending on startChan.RunnerChan
    ErrorChan,          \* the goroutines blocked sending on startChan.ErrorChan
    killed,             \* runner.Kill() has been called
    fatal,              \* whose error logger.Fatalf has reported, "" for none
    \* ---- parallelExecution: getNumberOfStreams and aggregateResults
    ppc,                \* position in the call
    numberOfExecutionStreams, \* e.numberOfExecutionStreams
    specs,              \* len(e.specStore.specs)
    specErrs,           \* len(e.errMaps.specErrs)
    nStreams,           \* what getNumberOfStreams returned
    suiteResults,       \* the streams' suite results, in stream order
    resultIndex,        \* the results aggregated so far
    aggregateResult,    \* the aggregate being built
    \* ---- coloredConsole (coloredConsole.go:31-36) and the events reported to it
    indentation,        \* c.indentation
    headingBuffer,      \* c.headingBuffer: the indentation of the heading it holds, -1 if empty
    Verbose,            \* the reporter package's Verbose flag
    scenarioIndentation, \* the package constant of that name
    stepIndentation,    \* the package constant of that name
    started,            \* the scenarios, steps and concepts started and not ended, innermost last
    reported            \* the event reported last

gvars == <<wg, mutex, conceptDictionary, specsCache, conceptsCache, stepsCache,
           disk, watched, events, fsOps, accepting, panicked,
           mpc, mloc, wpc, wloc, epc, eloc, rpc, rloc>>
tvars == <<tpc, item, specTags, tagExp, tagExpression, tagsMap, mode, expToBeEvaluated,
           value, err, result>>
avars == <<apc, bytesRead, apiMessage, herr, responseMessage, connection, received>>
ivars == <<ipc, ifilter, specItems, removed>>
dvars == <<dpc, spc, cpc, port, populated, parentAlive, parentProcessID, adopterRunning,
           RunnerChan, ErrorChan, killed, fatal>>
pvars == <<ppc, numberOfExecutionStreams, specs, specErrs, nStreams, suiteResults,
           resultIndex, aggregateResult>>
svars == <<decisions>>
rvars == <<indentation, headingBuffer, Verbose, scenarioIndentation, stepIndentation,
           started, reported>>
xvars == <<avars, ivars, dvars, pvars, svars, rvars>>
vars == <<gvars, tvars, xvars>>

\* The state of a part of the program that is not running.
NoMessage == [MessageType |-> "none", MessageId |-> 0, Text |-> ""]
AInit0 ==
    /\ apc = "off" /\ bytesRead = [ok |-> FALSE, message |-> NoMessage]
    /\ apiMessage = NoMessage /\ herr = "" /\ responseMessage = NoMessage
    /\ connection = << >> /\ received = << >>
NoFilter == [indexToNotFilter |-> 0, currentScenarioIndex |-> 0]
IInit0 == ipc = "off" /\ ifilter = NoFilter /\ specItems = << >> /\ removed = << >>
DInit0 ==
    /\ dpc = "off" /\ spc = "idle" /\ cpc = "idle" /\ port = 0 /\ populated = FALSE
    /\ parentAlive = TRUE /\ parentProcessID = "" /\ adopterRunning = TRUE
    /\ RunnerChan = {} /\ ErrorChan = {} /\ killed = FALSE /\ fatal = ""
\* result.SuiteResult's zero value; a hook failure is the number of the stream
\* it happened in, 0 for nil.
NoSuiteResult ==
    [ExecutionTime |-> 0, SpecsFailedCount |-> 0, SpecsSkippedCount |-> 0,
     IsFailed |-> FALSE, SpecResults |-> << >>, PreSuite |-> 0, PostSuite |-> 0,
     UnhandledErrors |-> << >>]
PInit0 ==
    /\ ppc = "off" /\ numberOfExecutionStreams = 0 /\ specs = 0 /\ specErrs = 0
    /\ nStreams = 0 /\ suiteResults = << >> /\ resultIndex = 0
    /\ aggregateResult = NoSuiteResult
SInit0 == decisions = << >>
RInit0 ==
    /\ indentation = 0 /\ headingBuffer = -1 /\ Verbose = FALSE
    /\ scenarioIndentation = 0 /\ stepIndentation = 0
    /\ started = << >> /\ reported = "none"
XInit0 == AInit0 /\ IInit0 /\ DInit0 /\ PInit0 /\ SInit0 /\ RInit0

(***************************************************************************)
(* Bounds                                                                  *)
(***************************************************************************)
MaxFsOps == 2


(***************************************************************************)
(* Go values                                                               *)
(***************************************************************************)
\* A nil map (alloc = FALSE) reads as empty and panics on assignment.
NilMap == [alloc |-> FALSE, m |-> << >>]
EmptyMap == [alloc |-> TRUE, m |-> << >>]
MapPut(m, k, v) == [x \in (DOMAIN m) \cup {k} |-> IF x = k THEN v ELSE m[x]]
\* A delete that empties the map.
MapDeleteAll(m, k) == << >>
MapDelete(m, k) == [x \in (DOMAIN m) \ {k} |-> m[x]]

RECURSIVE Flatten(_)
Flatten(ss) == IF ss = << >> THEN << >> ELSE Head(ss) \o Flatten(Tail(ss))


\* The orders in which a Go range over a map with key set S may visit it.
Orders(S) == {o \in [1..Cardinality(S) -> S] : \A k \in S : \E i \in DOMAIN o : o[i] = k}

Tasks == {"main", "watcher", "events", "reader"}

(***************************************************************************)
(* The project directory                                                   *)
(***************************************************************************)
SpecsDir == "specs"
SpecFile1 == "specs/s1.spec"
ConceptFile1 == "specs/c1.cpt"
SubDir == "specs/sub"
SpecFile2 == "specs/sub/s2.spec"
Paths == {SpecFile1, ConceptFile1, SubDir, SpecFile2}
FilePaths == {SpecFile1, ConceptFile1, SpecFile2}
DirPaths == {SubDir}

Absent == [kind |-> "absent"]
DirEntry == [kind |-> "dir"]
BadText == [kind |-> "bad"]
SpecTextA == [kind |-> "spec", steps |-> <<[sig |-> "k", arg |-> 0], [sig |-> "s", arg |-> 2]>>]
ConceptTextK == [kind |-> "cpt",
                 concepts |-> <<[name |-> "k", steps |-> <<[sig |-> "s", arg |-> 1]>>]>>]
SpecTexts == {SpecTextA, BadText}
ConceptTexts == {ConceptTextK, BadText}
RunnerSteps == <<[sig |-> "s", arg |-> 0]>>

ParentDir(p) == IF p = SpecFile2 THEN SubDir ELSE SpecsDir
Ext(p) == CASE p \in {SpecFile1, SpecFile2} -> ".spec"
            [] p = ConceptFile1 -> ".cpt"
            [] OTHER -> ""
DirExists(d) == d = SpecsDir \/ (d \in Paths /\ disk[d].kind = "dir")
TextsFor(p) == IF Ext(p) = ".cpt" THEN ConceptTexts ELSE SpecTexts

\* The project starts with an empty specs directory; files appear by fs_Create.
EmptyDisk == [p \in Paths |-> Absent]

\* util.IsSpec, util.IsConcept, util.IsDir
IsSpec(p) == Ext(p) \in {".spec", ".md"}
IsConcept(p) == Ext(p) = ".cpt"
IsDir(p) == p \in Paths /\ disk[p].kind = "dir"

\* util.FindSpecFilesIn, util.FindAllNestedDirs
FindSpecFilesIn ==
    SelectSeq(<<SpecFile1, SpecFile2>>,
              LAMBDA p : disk[p].kind \in {"spec", "bad"} /\ DirExists(ParentDir(p)))
FindAllNestedDirs == SelectSeq(<<SubDir>>, LAMBDA d : disk[d].kind = "dir")

(***************************************************************************)
(* The parser                                                              *)
(***************************************************************************)
\* A parsed step is a concept reference iff the dictionary knows its text.
ParseStep(raw, dict) == [sig |-> raw.sig, arg |-> raw.arg, IsConcept |-> raw.sig \in dict]
ParseSteps(raws, dict) == [i \in DOMAIN raws |-> ParseStep(raws[i], dict)]

\* parser.ParseSpecFiles: the files that parse, each as one specification.
ParseSpecFile(p, dict) ==
    IF disk[p].kind = "spec"
    THEN <<[FileName |-> p, Steps |-> ParseSteps(disk[p].steps, dict)]>>
    ELSE << >>
ParseSpecFiles(files, dict) == Flatten([i \in DOMAIN files |-> ParseSpecFile(files[i], dict)])

\* parser.ConceptParser.ParseFile: the concepts of one file; << >> with ok = FALSE on error.
ParseConceptFile(p) ==
    IF disk[p].kind = "cpt"
    THEN [ok |-> TRUE,
          concepts |-> [i \in DOMAIN disk[p].concepts |->
                          [ConceptStep |-> [sig |-> disk[p].concepts[i].name,
                                            ConceptSteps |-> ParseSteps(disk[p].concepts[i].steps, {})],
                           FileName |-> p]]]
    ELSE [ok |-> FALSE, concepts |-> << >>]

\* parser.CreateConceptsDictionary: every concept file of the project.
CreateConceptsDictionary ==
    LET cs == ParseConceptFile(ConceptFile1).concepts
    IN [alloc |-> TRUE,
        concepts |-> {cs[i].ConceptStep.sig : i \in DOMAIN cs},
        ConceptsMap |-> cs]

\* parser.CreateStepValue / parser.ExtractStepValueAndParams
CreateStepValue(step) == [StepValue |-> step.sig, Args |-> step.arg]

(***************************************************************************)
(* SpecInfoGatherer: the cache operations                                  *)
(***************************************************************************)
\* addToSpecsCache / addToConceptsCache, between Lock and Unlock: append to
\* the file's list.  On a nil map the assignment panics.
AppendToCache(cache, key, val) ==
    [cache EXCEPT !.m = MapPut(@, key, (IF key \in DOMAIN @ THEN @[key] ELSE << >>) \o <<val>>)]

addToSpecsCache(cache, key, val) == AppendToCache(cache, key, val)
addToConceptsCache(cache, key, val) == AppendToCache(cache, key, val)

\* addToStepsCache, between Lock and Unlock: a step is stored only under a
\* key that is not there yet.
RECURSIVE PutSteps(_, _, _)
PutSteps(m, allSteps, overwrite) ==
    IF allSteps = << >> THEN m
    ELSE LET step == Head(allSteps)
         IN PutSteps(IF step.StepValue \notin DOMAIN m \/ overwrite
                     THEN MapPut(m, step.StepValue, step) ELSE m,
                     Tail(allSteps), overwrite)

\* A variant in which the last writer wins.
addToStepsCacheLastWins(cache, allSteps) == [cache EXCEPT !.m = PutSteps(@, allSteps, TRUE)]

addToStepsCache(cache, allSteps) == [cache EXCEPT !.m = PutSteps(@, allSteps, FALSE)]

\* getStepsFromSpec, getStepsFromConcept: the steps that are not concepts.
StepValuesOf(steps) ==
    LET plain == SelectSeq(steps, LAMBDA st : ~st.IsConcept)
    IN [i \in DOMAIN plain |-> CreateStepValue(plain[i])]
getStepsFromSpec(spec) == StepValuesOf(spec.Steps)
getStepsFromConcept(concept) == StepValuesOf(concept.ConceptStep.ConceptSteps)

\* getStepsFromCachedSpecs, getStepsFromCachedConcepts, with the map ranged in order o.
getStepsFromCachedSpecs(o) ==
    Flatten([i \in DOMAIN o |->
               Flatten([j \in DOMAIN specsCache.m[o[i]] |-> getStepsFromSpec(specsCache.m[o[i]][j])])])
getStepsFromCachedConcepts(o) ==
    Flatten([i \in DOMAIN o |->
               Flatten([j \in DOMAIN conceptsCache.m[o[i]] |->
                          getStepsFromConcept(conceptsCache.m[o[i]][j])])])

\* getParsedStepValues
getParsedStepValues(steps) == [i \in DOMAIN steps |-> CreateStepValue(steps[i])]

\* The readers' snapshots, with the map ranged in order o.
GetAvailableSpecs(o) == Flatten([i \in DOMAIN o |-> specsCache.m[o[i]]])
GetAvailableSteps(o) == [i \in DOMAIN o |-> stepsCache.m[o[i]]]
GetConceptInfos(o) ==
    Flatten([i \in DOMAIN o |->
               [j \in DOMAIN conceptsCache.m[o[i]] |->
                  [StepValue |-> conceptsCache.m[o[i]][j].ConceptStep.sig,
                   Filepath |-> conceptsCache.m[o[i]][j].FileName]]])

(***************************************************************************)
(* Initial state of the gatherer: new(SpecInfoGatherer), nothing started   *)
(***************************************************************************)
MLoc0 == [parsed |-> << >>, i |-> 0, stepsFromSpecs |-> << >>,
          stepsFromConcepts |-> << >>, allSteps |-> << >>, err |-> FALSE]
WLoc0 == [dirs |-> << >>, i |-> 0]
NoEvent == [Name |-> "", Op |-> ""]
ELoc0 == [event |-> NoEvent, parsed |-> << >>, i |-> 0, steps |-> << >>]
RLoc0 == [kind |-> "", ret |-> << >>]

GStart ==
    /\ wg = 0
    /\ mutex = "free"
    /\ conceptDictionary = [alloc |-> FALSE, concepts |-> {}]
    /\ specsCache = NilMap
    /\ conceptsCache = NilMap
    /\ stepsCache = NilMap
    /\ watched = {}
    /\ events = << >>
    /\ accepting = FALSE
    /\ panicked = FALSE
    /\ mpc = "StartAPIService" /\ mloc = MLoc0
    /\ wpc = "idle" /\ wloc = WLoc0
    /\ epc = "idle" /\ eloc = ELoc0
    /\ rpc = "idle" /\ rloc = RLoc0

GInit == GStart /\ disk = EmptyDisk /\ fsOps = 0

\* The service is started on a project that has files already; all but one of
\* the file-system changes have been made.
SpecTextB == [kind |-> "spec", steps |-> <<[sig |-> "t", arg |-> 0]>>]
FullDisk ==
    [p \in Paths |-> CASE p = SubDir -> DirEntry
                       [] p = ConceptFile1 -> ConceptTextK
                       [] p = SpecFile1 -> SpecTextB
                       [] OTHER -> SpecTextA]
SmallDisk == [EmptyDisk EXCEPT ![SpecFile1] = SpecTextA]
GInitProject == GStart /\ disk \in {FullDisk, SmallDisk} /\ fsOps = MaxFsOps - 1

\* What an action of one task leaves alone.
EnvUnchanged == UNCHANGED <<disk, watched, events, fsOps, accepting, panicked>>
CachesUnchanged == UNCHANGED <<conceptDictionary, specsCache, conceptsCache, stepsCache>>
OthersOfMain == UNCHANGED <<wpc, wloc, epc, eloc, rpc, rloc, tvars, xvars>>
OthersOfWatcher == UNCHANGED <<mpc, mloc, epc, eloc, rpc, rloc, tvars, xvars>>
OthersOfEvents == UNCHANGED <<mpc, mloc, wpc, wloc, rpc, rloc, tvars, xvars>>
OthersOfReader == UNCHANGED <<mpc, mloc, wpc, wloc, epc, eloc, tvars, xvars>>

(***************************************************************************)
(* StartAPIService and MakeListOfAvailableSteps: the initialising task     *)
(***************************************************************************)
\* part_001:55-69: the connection handler is created and starts accepting;
\* a bind or publish error is sent on ErrorChan instead.
StartAPIService ==
    /\ mpc = "StartAPIService" /\ ~panicked
    /\ \/ accepting' = TRUE /\ mpc' = "connectToRunner"
       \/ accepting' = accepting /\ mpc' = "error"
    /\ UNCHANGED <<wg, mutex, disk, watched, events, fsOps, panicked, mloc>>
    /\ CachesUnchanged /\ OthersOfMain

\* part_001:70-75: the runner starts, or the error is sent on ErrorChan.
connectToRunner ==
    /\ mpc = "connectToRunner" /\ ~panicked
    /\ mpc' \in {"MakeListOfAvailableSteps", "error"}
    /\ UNCHANGED <<wg, mutex, mloc>>
    /\ EnvUnchanged /\ CachesUnchanged /\ OthersOfMain

\* part_002:48: go s.watchForFileChanges()
MakeList_GoWatch ==
    /\ mpc = "MakeListOfAvailableSteps" /\ ~panicked
    /\ mpc' = "m_wait"
    /\ wpc' = "w_add"
    /\ UNCHANGED <<wg, mutex, mloc, wloc, epc, eloc, rpc, rloc, tvars, xvars>>
    /\ EnvUnchanged /\ CachesUnchanged

\* part_002:49: s.waitGroup.Wait() returns when the counter is zero.
MakeList_Wait ==
    /\ mpc = "m_wait" /\ ~panicked
    /\ wg = 0
    /\ mpc' = "m_add"
    /\ UNCHANGED <<wg, mutex, mloc>>
    /\ EnvUnchanged /\ CachesUnchanged /\ OthersOfMain

\* part_002:52: s.waitGroup.Add(3)
MakeList_Add ==
    /\ mpc = "m_add" /\ ~panicked
    /\ wg' = wg + 3
    /\ mpc' = "c_make"
    /\ UNCHANGED <<mutex, mloc>>
    /\ EnvUnchanged /\ CachesUnchanged /\ OthersOfMain

\* part_002:75: s.conceptsCache = make(...), the mutex not held.
initConceptsCache_Make ==
    /\ mpc = "c_make" /\ ~panicked
    /\ conceptsCache' = EmptyMap
    /\ mpc' = "c_parse"
    /\ UNCHANGED <<wg, mutex, mloc, conceptDictionary, specsCache, stepsCache>>
    /\ EnvUnchanged /\ OthersOfMain

\* part_002:76, 137-142: getParsedConcepts replaces the concept dictionary.
initConceptsCache_Parse ==
    /\ mpc = "c_parse" /\ ~panicked
    /\ LET d == CreateConceptsDictionary
       IN /\ conceptDictionary' = [alloc |-> TRUE, concepts |-> d.concepts]
          /\ mloc' = [mloc EXCEPT !.parsed = d.ConceptsMap, !.i = 1]
    /\ mpc' = "c_loop"
    /\ UNCHANGED <<wg, mutex, specsCache, conceptsCache, stepsCache>>
    /\ EnvUnchanged /\ OthersOfMain

\* part_002:79-81, 110: the next concept; addToConceptsCache takes the mutex.
initConceptsCache_Lock ==
    /\ mpc = "c_loop" /\ ~panicked
    /\ mloc.i <= Len(mloc.parsed)
    /\ mutex = "free" /\ mutex' = "main"
    /\ mpc' = "c_add"
    /\ UNCHANGED <<wg, mloc>>
    /\ EnvUnchanged /\ CachesUnchanged /\ OthersOfMain

\* part_002:111-115
initConceptsCache_Add ==
    /\ mpc = "c_add" /\ ~panicked
    /\ LET c == mloc.parsed[mloc.i]
       IN conceptsCache' = addToConceptsCache(conceptsCache, c.FileName, c)
    /\ mutex' = "free"
    /\ mloc' = [mloc EXCEPT !.i = @ + 1]
    /\ mpc' = "c_loop"
    /\ UNCHANGED <<wg, conceptDictionary, specsCache, stepsCache>>
    /\ EnvUnchanged /\ OthersOfMain

\* part_002:73: the deferred s.waitGroup.Done()
initConceptsCache_Done ==
    /\ mpc = "c_loop" /\ ~panicked
    /\ mloc.i > Len(mloc.parsed)
    /\ wg' = wg - 1
    /\ mloc' = MLoc0
    /\ mpc' = "s_make"
    /\ UNCHANGED <<mutex>>
    /\ EnvUnchanged /\ CachesUnchanged /\ OthersOfMain

\* part_002:61: s.specsCache = make(...), the mutex not held.
initSpecsCache_Make ==
    /\ mpc = "s_make" /\ ~panicked
    /\ specsCache' = EmptyMap
    /\ mpc' = "s_parse"
    /\ UNCHANGED <<wg, mutex, mloc, conceptDictionary, conceptsCache, stepsCache>>
    /\ EnvUnchanged /\ OthersOfMain

\* getParsedSpecs (part_002:128-135): the dictionary is created only when
\* there is none; the files are parsed against the dictionary as it is.
DictionaryForParse ==
    IF conceptDictionary.alloc THEN conceptDictionary ELSE [alloc |-> TRUE, concepts |-> {}]
getParsedSpecs(specFiles) == ParseSpecFiles(specFiles, DictionaryForParse.concepts)

\* part_002:62-63
initSpecsCache_Parse ==
    /\ mpc = "s_parse" /\ ~panicked
    /\ conceptDictionary' = DictionaryForParse
    /\ mloc' = [mloc EXCEPT !.parsed = getParsedSpecs(FindSpecFilesIn), !.i = 1]
    /\ mpc' = "s_loop"
    /\ UNCHANGED <<wg, mutex, specsCache, conceptsCache, stepsCache>>
    /\ EnvUnchanged /\ OthersOfMain

\* part_002:66-68, 101
initSpecsCache_Lock ==
    /\ mpc = "s_loop" /\ ~panicked
    /\ mloc.i <= Len(mloc.parsed)
    /\ mutex = "free" /\ mutex' = "main"
    /\ mpc' = "s_add"
    /\ UNCHANGED <<wg, mloc>>
    /\ EnvUnchanged /\ CachesUnchanged /\ OthersOfMain

\* part_002:102-106
initSpecsCache_Add ==
    /\ mpc = "s_add" /\ ~panicked
    /\ LET sp == mloc.parsed[mloc.i]
       IN specsCache' = addToSpecsCache(specsCache, sp.FileName, sp)
    /\ mutex' = "free"
    /\ mloc' = [mloc EXCEPT !.i = @ + 1]
    /\ mpc' = "s_loop"
    /\ UNCHANGED <<wg, conceptDictionary, conceptsCache, stepsCache>>
    /\ EnvUnchanged /\ OthersOfMain

\* part_002:59: the deferred s.waitGroup.Done()
initSpecsCache_Done ==
    /\ mpc = "s_loop" /\ ~panicked
    /\ mloc.i > Len(mloc.parsed)
    /\ wg' = wg - 1
    /\ mloc' = MLoc0
    /\ mpc' = "t_make"
    /\ UNCHANGED <<mutex>>
    /\ EnvUnchanged /\ CachesUnchanged /\ OthersOfMain

\* part_002:88: s.stepsCache = make(...), the mutex not held.
initStepsCache_Make ==
    /\ mpc = "t_make" /\ ~panicked
    /\ stepsCache' = EmptyMap
    /\ mpc' = "t_specs"
    /\ UNCHANGED <<wg, mutex, mloc, conceptDictionary, specsCache, conceptsCache>>
    /\ EnvUnchanged /\ OthersOfMain

\* part_002:89, 159: getStepsFromCachedSpecs takes the mutex.
initStepsCache_LockSpecs ==
    /\ mpc = "t_specs" /\ ~panicked
    /\ mutex = "free" /\ mutex' = "main"
    /\ mpc' = "t_specs_read"
    /\ UNCHANGED <<wg, mloc>>
    /\ EnvUnchanged /\ CachesUnchanged /\ OthersOfMain

\* part_002:160-165
initStepsCache_ReadSpecs ==
    /\ mpc = "t_specs_read" /\ ~panicked
    /\ \E o \in Orders(DOMAIN specsCache.m) :
          mloc' = [mloc EXCEPT !.stepsFromSpecs = getStepsFromCachedSpecs(o)]
    /\ mutex' = "free"
    /\ mpc' = "t_concepts"
    /\ UNCHANGED <<wg>>
    /\ EnvUnchanged /\ CachesUnchanged /\ OthersOfMain

\* part_002:90, 171
initStepsCache_LockConcepts ==
    /\ mpc = "t_concepts" /\ ~panicked
    /\ mutex = "free" /\ mutex' = "main"
    /\ mpc' = "t_concepts_read"
    /\ UNCHANGED <<wg, mloc>>
    /\ EnvUnchanged /\ CachesUnchanged /\ OthersOfMain

\* part_002:172-177
initStepsCache_ReadConcepts ==
    /\ mpc = "t_concepts_read" /\ ~panicked
    /\ \E o \in Orders(DOMAIN conceptsCache.m) :
          mloc' = [mloc EXCEPT !.stepsFromConcepts = getStepsFromCachedConcepts(o)]
    /\ mutex' = "free"
    /\ mpc' = "t_implemented"
    /\ UNCHANGED <<wg>>
    /\ EnvUnchanged /\ CachesUnchanged /\ OthersOfMain

\* getImplementedSteps (part_002:205-215): the runner's step names, or none
\* when the request fails or times out.
\* A variant that still has the runner's steps when the request has failed.
ImplementedStepsDespiteError ==
    {[err |-> e, stepValues |-> getParsedStepValues(RunnerSteps)] : e \in BOOLEAN}
ImplementedSteps ==
    {[err |-> FALSE, stepValues |-> getParsedStepValues(RunnerSteps)],
     [err |-> TRUE, stepValues |-> << >>]}

\* part_002:91-94
initStepsCache_Implemented ==
    /\ mpc = "t_implemented" /\ ~panicked
    /\ \E implementedSteps \in ImplementedSteps :
          mloc' = [mloc EXCEPT
                     !.allSteps = implementedSteps.stepValues \o mloc.stepsFromConcepts
                                     \o mloc.stepsFromSpecs,
                     !.err = implementedSteps.err]
    /\ mpc' = "t_lock"
    /\ UNCHANGED <<wg, mutex>>
    /\ EnvUnchanged /\ CachesUnchanged /\ OthersOfMain

\* part_002:97, 119
initStepsCache_Lock ==
    /\ mpc = "t_lock" /\ ~panicked
    /\ mutex = "free" /\ mutex' = "main"
    /\ mpc' = "t_add"
    /\ UNCHANGED <<wg, mloc>>
    /\ EnvUnchanged /\ CachesUnchanged /\ OthersOfMain

\* part_002:120-125
initStepsCache_Add ==
    /\ mpc = "t_add" /\ ~panicked
    /\ stepsCache' = addToStepsCache(stepsCache, mloc.allSteps)
    /\ mutex' = "free"
    /\ mpc' = "t_done"
    /\ UNCHANGED <<wg, mloc, conceptDictionary, specsCache, conceptsCache>>
    /\ EnvUnchanged /\ OthersOfMain

\* part_002:86: the deferred s.waitGroup.Done(); MakeListOfAvailableSteps returns.
initStepsCache_Done ==
    /\ mpc = "t_done" /\ ~panicked
    /\ wg' = wg - 1
    /\ mloc' = MLoc0
    /\ mpc' = "done"
    /\ UNCHANGED <<mutex>>
    /\ EnvUnchanged /\ CachesUnchanged /\ OthersOfMain

MainNext ==
    \/ StartAPIService \/ connectToRunner
    \/ MakeList_GoWatch \/ MakeList_Wait \/ MakeList_Add
    \/ initConceptsCache_Make \/ initConceptsCache_Parse \/ initConceptsCache_Lock
    \/ initConceptsCache_Add \/ initConceptsCache_Done
    \/ initSpecsCache_Make \/ initSpecsCache_Parse \/ initSpecsCache_Lock
    \/ initSpecsCache_Add \/ initSpecsCache_Done
    \/ initStepsCache_Make \/ initStepsCache_LockSpecs \/ initStepsCache_ReadSpecs
    \/ initStepsCache_LockConcepts \/ initStepsCache_ReadConcepts
    \/ initStepsCache_Implemented \/ initStepsCache_Lock \/ initStepsCache_Add
    \/ initStepsCache_Done

(***************************************************************************)
(* watchForFileChanges: the watcher task                                   *)
(***************************************************************************)
\* part_002:286: s.waitGroup.Add(1)
watch_Add ==
    /\ wpc = "w_add" /\ ~panicked
    /\ wg' = wg + 1
    /\ wpc' = "w_start"
    /\ UNCHANGED <<mutex, wloc>>
    /\ EnvUnchanged /\ CachesUnchanged /\ OthersOfWatcher

\* part_002:288-310: the event goroutine starts; the directories to watch
\* are the specs root and the directories nested in it now.
watch_Start ==
    /\ wpc = "w_start" /\ ~panicked
    /\ epc' = "e_recv"
    /\ wloc' = [dirs |-> <<SpecsDir>> \o FindAllNestedDirs, i |-> 1]
    /\ wpc' = "w_subscribe"
    /\ UNCHANGED <<wg, mutex, mpc, mloc, eloc, rpc, rloc, tvars, xvars>>
    /\ EnvUnchanged /\ CachesUnchanged

\* addDirToFileWatcher (part_002:319-328): watcher.Add fails on a missing directory.
addDirToFileWatcher(dir) == IF DirExists(dir) THEN watched \cup {dir} ELSE watched

\* part_002:312-314
watch_Subscribe ==
    /\ wpc = "w_subscribe" /\ ~panicked
    /\ wloc.i <= Len(wloc.dirs)
    /\ watched' = addDirToFileWatcher(wloc.dirs[wloc.i])
    /\ wloc' = [wloc EXCEPT !.i = @ + 1]
    /\ UNCHANGED <<wg, mutex, wpc, disk, events, fsOps, accepting, panicked>>
    /\ CachesUnchanged /\ OthersOfWatcher

\* part_002:315-316: s.waitGroup.Done(), then the task blocks on done.
watch_Done ==
    /\ wpc = "w_subscribe" /\ ~panicked
    /\ wloc.i > Len(wloc.dirs)
    /\ wg' = wg - 1
    /\ wloc' = WLoc0
    /\ wpc' = "w_blocked"
    /\ UNCHANGED <<mutex>>
    /\ EnvUnchanged /\ CachesUnchanged /\ OthersOfWatcher

WatcherNext == watch_Add \/ watch_Start \/ watch_Subscribe \/ watch_Done

(***************************************************************************)
(* The watcher's event goroutine: handleEvent and the mutators             *)
(***************************************************************************)
\* part_002:298: case event := <-watcher.Events
events_Receive ==
    /\ epc = "e_recv" /\ ~panicked
    /\ events # << >>
    /\ eloc' = [eloc EXCEPT !.event = Head(events)]
    /\ events' = Tail(events)
    /\ epc' = "handleEvent"
    /\ UNCHANGED <<wg, mutex, disk, watched, fsOps, accepting, panicked>>
    /\ CachesUnchanged /\ OthersOfEvents

\* Where handleEvent's switch leads (part_002:343-384): only a path that is
\* a spec or a concept file by its name is dispatched at all.
Dispatch(file, op) ==
    IF IsSpec(file) \/ IsConcept(file)
    THEN CASE op \in {"Create", "Write"} ->
                 IF IsSpec(file) THEN "onSpecFileModify" ELSE "onConceptFileModify"
           [] op \in {"Rename", "Remove"} ->
                 IF IsSpec(file) THEN "onSpecFileRemove" ELSE "onConceptFileRemove"
    ELSE "e_recv"

\* onFileAdd (part_002:357-362): a created path that is a directory is subscribed.
WatchedAfter(file, op) ==
    IF (IsSpec(file) \/ IsConcept(file)) /\ op = "Create" /\ IsDir(file)
    THEN addDirToFileWatcher(file)
    ELSE watched

\* part_002:336-355: s.waitGroup.Wait(), then the switch on event.Op.
handleEvent ==
    /\ epc = "handleEvent" /\ ~panicked
    /\ wg = 0
    /\ watched' = WatchedAfter(eloc.event.Name, eloc.event.Op)
    /\ epc' = Dispatch(eloc.event.Name, eloc.event.Op)
    /\ eloc' = IF epc' = "e_recv" THEN ELoc0 ELSE eloc
    /\ UNCHANGED <<wg, mutex, disk, events, fsOps, accepting, panicked>>
    /\ CachesUnchanged /\ OthersOfEvents

\* part_002:218, 232, 252, 262: s.waitGroup.Add(1)
mutator_Add ==
    /\ epc \in {"onSpecFileModify", "onConceptFileModify", "onSpecFileRemove", "onConceptFileRemove"}
    /\ ~panicked
    /\ wg' = wg + 1
    /\ epc' = CASE epc = "onSpecFileModify" -> "sm_parse"
                [] epc = "onConceptFileModify" -> "cm_parse"
                [] epc = "onSpecFileRemove" -> "sr_lock"
                [] epc = "onConceptFileRemove" -> "cr_lock"
    /\ UNCHANGED <<mutex, eloc>>
    /\ EnvUnchanged /\ CachesUnchanged /\ OthersOfEvents

\* part_002:219, 233, 253, 263: the deferred s.waitGroup.Done()
mutator_Done ==
    /\ epc = "e_done" /\ ~panicked
    /\ wg' = wg - 1
    /\ eloc' = ELoc0
    /\ epc' = "e_recv"
    /\ UNCHANGED <<mutex>>
    /\ EnvUnchanged /\ CachesUnchanged /\ OthersOfEvents

\* part_002:222-223: the file is parsed; nothing more happens when it does not parse.
onSpecFileModify_Parse ==
    /\ epc = "sm_parse" /\ ~panicked
    /\ conceptDictionary' = DictionaryForParse
    /\ LET parsedSpecs == getParsedSpecs(<<eloc.event.Name>>)
       IN /\ eloc' = [eloc EXCEPT !.parsed = parsedSpecs]
          /\ epc' = IF Len(parsedSpecs) # 0 THEN "sm_lock" ELSE "e_done"
    /\ UNCHANGED <<wg, mutex, specsCache, conceptsCache, stepsCache>>
    /\ EnvUnchanged /\ OthersOfEvents

\* part_002:225, 101
onSpecFileModify_Lock ==
    /\ epc = "sm_lock" /\ ~panicked
    /\ mutex = "free" /\ mutex' = "events"
    /\ epc' = "sm_add"
    /\ UNCHANGED <<wg, eloc>>
    /\ EnvUnchanged /\ CachesUnchanged /\ OthersOfEvents

\* part_002:102-106, 226: the spec is appended; on a nil map the assignment panics.
onSpecFileModify_Add ==
    /\ epc = "sm_add" /\ ~panicked
    /\ IF specsCache.alloc
       THEN /\ specsCache' = addToSpecsCache(specsCache, eloc.event.Name, eloc.parsed[1])
            /\ mutex' = "free"
            /\ eloc' = [eloc EXCEPT !.steps = getStepsFromSpec(eloc.parsed[1])]
            /\ epc' = "sm_steps"
            /\ panicked' = FALSE
       ELSE /\ panicked' = TRUE
            /\ UNCHANGED <<specsCache, mutex, eloc, epc>>
    /\ UNCHANGED <<wg, conceptDictionary, conceptsCache, stepsCache,
                   disk, watched, events, fsOps, accepting>>
    /\ OthersOfEvents

\* part_002:227, 119
onSpecFileModify_LockSteps ==
    /\ epc = "sm_steps" /\ ~panicked
    /\ mutex = "free" /\ mutex' = "events"
    /\ epc' = "sm_steps_add"
    /\ UNCHANGED <<wg, eloc>>
    /\ EnvUnchanged /\ CachesUnchanged /\ OthersOfEvents

\* addToStepsCache on behalf of a mutator (part_002:120-125): storing a step
\* in a nil map panics.
StepsAdded(next) ==
    IF stepsCache.alloc \/ eloc.steps = << >>
    THEN /\ stepsCache' = addToStepsCache(stepsCache, eloc.steps)
         /\ mutex' = "free"
         /\ epc' = next
         /\ panicked' = FALSE
    ELSE /\ panicked' = TRUE
         /\ UNCHANGED <<stepsCache, mutex, epc>>

\* part_002:120-125
onSpecFileModify_AddSteps ==
    /\ epc = "sm_steps_add" /\ ~panicked
    /\ StepsAdded("e_done")
    /\ UNCHANGED <<wg, eloc, conceptDictionary, specsCache, conceptsCache,
                   disk, watched, events, fsOps, accepting>>
    /\ OthersOfEvents

\* A variant that goes on with the file's concepts whatever the parse result.
onConceptFileModify_ParseIgnoringError ==
    /\ epc = "cm_parse" /\ ~panicked
    /\ LET r == ParseConceptFile(eloc.event.Name)
       IN /\ eloc' = [eloc EXCEPT !.parsed = r.concepts, !.i = 1]
          /\ epc' = "cm_loop"
    /\ UNCHANGED <<wg, mutex>>
    /\ EnvUnchanged /\ CachesUnchanged /\ OthersOfEvents

\* part_002:236-241: the concept file is parsed; a parse error ends the call.
onConceptFileModify_Parse ==
    /\ epc = "cm_parse" /\ ~panicked
    /\ LET r == ParseConceptFile(eloc.event.Name)
       IN /\ eloc' = [eloc EXCEPT !.parsed = r.concepts, !.i = 1]
          /\ epc' = IF r.ok THEN "cm_loop" ELSE "e_done"
    /\ UNCHANGED <<wg, mutex>>
    /\ EnvUnchanged /\ CachesUnchanged /\ OthersOfEvents

\* part_002:243-245, 110: the next concept of the file
onConceptFileModify_Lock ==
    /\ epc = "cm_loop" /\ ~panicked
    /\ eloc.i <= Len(eloc.parsed)
    /\ mutex = "free" /\ mutex' = "events"
    /\ epc' = "cm_add"
    /\ UNCHANGED <<wg, eloc>>
    /\ EnvUnchanged /\ CachesUnchanged /\ OthersOfEvents

\* part_002:243: the range over the file's concepts is over
onConceptFileModify_End ==
    /\ epc = "cm_loop" /\ ~panicked
    /\ eloc.i > Len(eloc.parsed)
    /\ epc' = "e_done"
    /\ UNCHANGED <<wg, mutex, eloc>>
    /\ EnvUnchanged /\ CachesUnchanged /\ OthersOfEvents

\* part_002:111-115, 246
onConceptFileModify_Add ==
    /\ epc = "cm_add" /\ ~panicked
    /\ IF conceptsCache.alloc
       THEN /\ conceptsCache' =
                   addToConceptsCache(conceptsCache, eloc.event.Name, eloc.parsed[eloc.i])
            /\ mutex' = "free"
            /\ eloc' = [eloc EXCEPT !.steps = getStepsFromConcept(eloc.parsed[eloc.i])]
            /\ epc' = "cm_steps"
            /\ panicked' = FALSE
       ELSE /\ panicked' = TRUE
            /\ UNCHANGED <<conceptsCache, mutex, eloc, epc>>
    /\ UNCHANGED <<wg, conceptDictionary, specsCache, stepsCache,
                   disk, watched, events, fsOps, accepting>>
    /\ OthersOfEvents

\* part_002:247, 119
onConceptFileModify_LockSteps ==
    /\ epc = "cm_steps" /\ ~panicked
    /\ mutex = "free" /\ mutex' = "events"
    /\ epc' = "cm_steps_add"
    /\ UNCHANGED <<wg, eloc>>
    /\ EnvUnchanged /\ CachesUnchanged /\ OthersOfEvents

\* part_002:120-125, then the next concept
onConceptFileModify_AddSteps ==
    /\ epc = "cm_steps_add" /\ ~panicked
    /\ StepsAdded("cm_loop")
    /\ eloc' = IF panicked' THEN eloc ELSE [eloc EXCEPT !.i = @ + 1, !.steps = << >>]
    /\ UNCHANGED <<wg, conceptDictionary, specsCache, conceptsCache,
                   disk, watched, events, fsOps, accepting>>
    /\ OthersOfEvents

\* part_002:256, 266
onFileRemove_Lock ==
    /\ epc \in {"sr_lock", "cr_lock"} /\ ~panicked
    /\ mutex = "free" /\ mutex' = "events"
    /\ epc' = IF epc = "sr_lock" THEN "sr_delete" ELSE "cr_delete"
    /\ UNCHANGED <<wg, eloc>>
    /\ EnvUnchanged /\ CachesUnchanged /\ OthersOfEvents

\* part_002:257-258: delete(s.specsCache, file); on a nil map it does nothing.
onSpecFileRemove_Delete ==
    /\ epc = "sr_delete" /\ ~panicked
    /\ specsCache' = [specsCache EXCEPT !.m = MapDelete(@, eloc.event.Name)]
    /\ mutex' = "free"
    /\ epc' = "e_done"
    /\ UNCHANGED <<wg, eloc, conceptDictionary, conceptsCache, stepsCache>>
    /\ EnvUnchanged /\ OthersOfEvents

\* part_002:267-268
onConceptFileRemove_Delete ==
    /\ epc = "cr_delete" /\ ~panicked
    /\ conceptsCache' = [conceptsCache EXCEPT !.m = MapDelete(@, eloc.event.Name)]
    /\ mutex' = "free"
    /\ epc' = "e_done"
    /\ UNCHANGED <<wg, eloc, conceptDictionary, specsCache, stepsCache>>
    /\ EnvUnchanged /\ OthersOfEvents

EventsNext ==
    \/ events_Receive \/ handleEvent \/ mutator_Add \/ mutator_Done
    \/ onSpecFileModify_Parse \/ onSpecFileModify_Lock \/ onSpecFileModify_Add
    \/ onSpecFileModify_LockSteps \/ onSpecFileModify_AddSteps
    \/ onConceptFileModify_Parse \/ onConceptFileModify_Lock \/ onConceptFileModify_End
    \/ onConceptFileModify_Add \/ onConceptFileModify_LockSteps
    \/ onConceptFileModify_AddSteps
    \/ onFileRemove_Lock \/ onSpecFileRemove_Delete \/ onConceptFileRemove_Delete

(***************************************************************************)
(* An API reader: GetAvailableSpecs, GetAvailableSteps, GetConceptInfos    *)
(***************************************************************************)
Readers == {"GetAvailableSpecs", "GetAvailableSteps", "GetConceptInfos"}

\* part_001:219, 229, 248: a request handler calls a reader; requests are
\* served once the connection handler runs.
reader_Call ==
    /\ rpc = "idle" /\ ~panicked
    /\ accepting
    /\ \E k \in Readers : rloc' = [kind |-> k, ret |-> << >>]
    /\ rpc' = "r_wait"
    /\ UNCHANGED <<wg, mutex>>
    /\ EnvUnchanged /\ CachesUnchanged /\ OthersOfReader

\* part_002:387, 399, 411: s.waitGroup.Wait()
reader_Wait ==
    /\ rpc = "r_wait" /\ ~panicked
    /\ wg = 0
    /\ rpc' = "r_lock"
    /\ UNCHANGED <<wg, mutex, rloc>>
    /\ EnvUnchanged /\ CachesUnchanged /\ OthersOfReader

\* part_002:390, 402, 414
reader_Lock ==
    /\ rpc = "r_lock" /\ ~panicked
    /\ mutex = "free" /\ mutex' = "reader"
    /\ rpc' = "r_read"
    /\ UNCHANGED <<wg, rloc>>
    /\ EnvUnchanged /\ CachesUnchanged /\ OthersOfReader

\* The cache a reader ranges over.
CacheOf(kind) ==
    CASE kind = "GetAvailableSpecs" -> specsCache
      [] kind = "GetAvailableSteps" -> stepsCache
      [] kind = "GetConceptInfos" -> conceptsCache

\* part_002:391-395, 403-407, 415-422: the snapshot is taken and returned.
reader_Read ==
    /\ rpc = "r_read" /\ ~panicked
    /\ \E o \in Orders(DOMAIN CacheOf(rloc.kind).m) :
          rloc' = [rloc EXCEPT !.ret =
                     CASE rloc.kind = "GetAvailableSpecs" -> GetAvailableSpecs(o)
                       [] rloc.kind = "GetAvailableSteps" -> GetAvailableSteps(o)
                       [] rloc.kind = "GetConceptInfos" -> GetConceptInfos(o)]
    /\ mutex' = "free"
    /\ rpc' = "r_returned"
    /\ UNCHANGED <<wg>>
    /\ EnvUnchanged /\ CachesUnchanged /\ OthersOfReader

\* part_001:224-225, 229-230, 248-249: the response is built from the snapshot.
reader_Respond ==
    /\ rpc = "r_returned" /\ ~panicked
    /\ rloc' = RLoc0
    /\ rpc' = "idle"
    /\ UNCHANGED <<wg, mutex>>
    /\ EnvUnchanged /\ CachesUnchanged /\ OthersOfReader

ReaderNext == reader_Call \/ reader_Wait \/ reader_Lock \/ reader_Read \/ reader_Respond

(***************************************************************************)
(* The file system under the project, and fsnotify                         *)
(***************************************************************************)
\* fsnotify delivers an event for a path whose directory is subscribed.
Notify(p, op) ==
    IF ParentDir(p) \in watched
    THEN Append(events, [Name |-> p, Op |-> op])
    ELSE events

FsUnchanged ==
    /\ UNCHANGED <<wg, mutex, watched, accepting, panicked,
                   mpc, mloc, wpc, wloc, epc, eloc, rpc, rloc, tvars, xvars>>
    /\ CachesUnchanged

\* A file is created.
fs_Create ==
    /\ fsOps < MaxFsOps /\ ~panicked
    /\ \E p \in FilePaths : \E text \in TextsFor(p) :
          /\ disk[p] = Absent /\ DirExists(ParentDir(p))
          /\ disk' = [disk EXCEPT ![p] = text]
          /\ events' = Notify(p, "Create")
    /\ fsOps' = fsOps + 1
    /\ FsUnchanged

\* A directory is created.
fs_Mkdir ==
    /\ fsOps < MaxFsOps /\ ~panicked
    /\ \E d \in DirPaths :
          /\ disk[d] = Absent
          /\ disk' = [disk EXCEPT ![d] = DirEntry]
          /\ events' = Notify(d, "Create")
    /\ fsOps' = fsOps + 1
    /\ FsUnchanged

\* A file is written.
fs_Write ==
    /\ fsOps < MaxFsOps /\ ~panicked
    /\ \E p \in FilePaths : \E text \in TextsFor(p) :
          /\ disk[p] \notin {Absent, DirEntry}
          /\ disk' = [disk EXCEPT ![p] = text]
          /\ events' = Notify(p, "Write")
    /\ fsOps' = fsOps + 1
    /\ FsUnchanged

\* A file is removed, or renamed away.
fs_Remove ==
    /\ fsOps < MaxFsOps /\ ~panicked
    /\ \E p \in FilePaths : \E op \in {"Remove", "Rename"} :
          /\ disk[p] \notin {Absent, DirEntry}
          /\ disk' = [disk EXCEPT ![p] = Absent]
          /\ events' = Notify(p, op)
    /\ fsOps' = fsOps + 1
    /\ FsUnchanged

FsNext == fs_Create \/ fs_Mkdir \/ fs_Write \/ fs_Remove

(***************************************************************************)
(* The gatherer's specification                                            *)
(***************************************************************************)
TInit0 ==
    /\ tpc = "off" /\ item = [Kind |-> "none"] /\ specTags = << >>
    /\ tagExp = << >> /\ tagExpression = << >> /\ tagsMap = {}
    /\ mode = "" /\ expToBeEvaluated = << >> /\ value = FALSE /\ err = FALSE
    /\ result = ""

Init == GInit /\ TInit0 /\ XInit0

Next == MainNext \/ WatcherNext \/ EventsNext \/ ReaderNext \/ FsNext

Spec == Init /\ [][Next]_vars

InitProject == GInitProject /\ TInit0 /\ XInit0

SpecProject == InitProject /\ [][Next]_vars

(***************************************************************************)
(* What the tasks are doing                                                *)
(***************************************************************************)
\* MakeListOfAvailableSteps has returned: the three caches are populated.
InitialPopulationDone == mpc = "done"

\* The initialising task has parsed, or is past parsing, concepts or specs.
StartedParsing ==
    mpc \in {"c_loop", "c_add", "s_make", "s_parse", "s_loop", "s_add", "t_make", "t_specs",
             "t_specs_read", "t_concepts", "t_concepts_read", "t_implemented", "t_lock",
             "t_add", "t_done", "done"}

\* watchForFileChanges has subscribed to every directory it listed.
SubscriptionDone ==
    \/ wpc = "w_blocked"
    \/ wpc = "w_subscribe" /\ wloc.i > Len(wloc.dirs)

\* The cache accesses a task's next step makes: <<cache, "read" or "write">>.
Access(t) ==
    CASE t = "main" ->
           (CASE mpc \in {"c_make", "c_add"} -> {<<"conceptsCache", "write">>}
              [] mpc \in {"s_make", "s_add"} -> {<<"specsCache", "write">>}
              [] mpc \in {"t_make", "t_add"} -> {<<"stepsCache", "write">>}
              [] mpc = "t_specs_read" -> {<<"specsCache", "read">>}
              [] mpc = "t_concepts_read" -> {<<"conceptsCache", "read">>}
              [] OTHER -> {})
      [] t = "events" ->
           (CASE epc \in {"sm_add", "sr_delete"} -> {<<"specsCache", "write">>}
              [] epc \in {"cm_add", "cr_delete"} -> {<<"conceptsCache", "write">>}
              [] epc \in {"sm_steps_add", "cm_steps_add"} -> {<<"stepsCache", "write">>}
              [] OTHER -> {})
      [] t = "reader" ->
           (CASE rpc = "r_read" /\ rloc.kind = "GetAvailableSpecs" -> {<<"specsCache", "read">>}
              [] rpc = "r_read" /\ rloc.kind = "GetAvailableSteps" -> {<<"stepsCache", "read">>}
              [] rpc = "r_read" /\ rloc.kind = "GetConceptInfos" -> {<<"conceptsCache", "read">>}
              [] OTHER -> {})
      [] OTHER -> {}

\* Two tasks are about to touch the same cache, one of them writing.
Race(t1, t2) ==
    /\ t1 # t2
    /\ \E a1 \in Access(t1) : \E a2 \in Access(t2) :
          a1[1] = a2[1] /\ "write" \in {a1[2], a2[2]}

\* The concepts the concepts cache holds that their file still defines.
CachedConceptNames ==
    {c.ConceptStep.sig :
       c \in UNION {{conceptsCache.m[f][i] : i \in DOMAIN conceptsCache.m[f]} :
                      f \in DOMAIN conceptsCache.m}}
ConceptNamesOnDisk ==
    UNION {{disk[p].concepts[i].name : i \in DOMAIN disk[p].concepts} :
             p \in {q \in FilePaths : disk[q].kind = "cpt"}}

\* This step parses spec files (getParsedSpecs).
SpecParseStep ==
    \/ mpc = "s_parse" /\ mpc' = "s_loop"
    \/ epc = "sm_parse" /\ epc' # "sm_parse"

\* This step is handleEvent, on a Create event for a directory.
DirCreateHandled ==
    /\ epc = "handleEvent" /\ epc' # "handleEvent"
    /\ eloc.event.Op = "Create" /\ IsDir(eloc.event.Name)

(***************************************************************************)
(* Claims about the gatherer                                               *)
(***************************************************************************)
\* C1: no reader returns before the gatherer's initial population of the
\* caches has completed.
C1_ReadersReturnAfterInit == rpc = "r_returned" => InitialPopulationDone

\* C5: a file's entry in the specs cache holds one specification, that of
\* its latest parse, and GetAvailableSpecs returns no file twice.
C5_OneSpecPerFile ==
    /\ \A f \in DOMAIN specsCache.m : Len(specsCache.m[f]) = 1
    /\ (rpc = "r_returned" /\ rloc.kind = "GetAvailableSpecs") =>
          \A i, j \in DOMAIN rloc.ret : rloc.ret[i].FileName = rloc.ret[j].FileName => i = j

\* C6: the steps cache is keyed by step signature, and once a signature is
\* in it no step changes or removes the StepValue stored for it.
KeysAreSignatures == \A k \in DOMAIN stepsCache.m : stepsCache.m[k].StepValue = k
C6_FirstWriterWins ==
    [][/\ KeysAreSignatures'
       /\ \A k \in DOMAIN stepsCache.m :
             k \in DOMAIN stepsCache'.m /\ stepsCache'.m[k] = stepsCache.m[k]]_vars

\* C6 witness: a mutator has offered a step whose signature was taken, and
\* the cache still holds the earlier StepValue.
C6_LaterWriterLost ==
    /\ epc = "e_done"
    /\ \E i \in DOMAIN eloc.steps :
          /\ eloc.steps[i].StepValue \in DOMAIN stepsCache.m
          /\ stepsCache.m[eloc.steps[i].StepValue] # eloc.steps[i]

\* C7: a task touches a cache only while it holds the mutex, and no two
\* tasks are ever about to touch the same cache, one of them writing.
C7_CachesOnlyUnderMutex ==
    /\ \A t \in Tasks : Access(t) # {} => mutex = t
    /\ \A t1, t2 \in Tasks : ~Race(t1, t2)

\* C7, the race itself: the initialising task assigns a new map to
\* specsCache while a reader, holding the mutex, ranges over specsCache.
C7_InitRacesReader ==
    /\ mpc = "s_make" /\ rpc = "r_read" /\ rloc.kind = "GetAvailableSpecs"
    /\ mutex = "reader"

\* C8: the initialising task does not parse concepts or specs before the
\* watcher task has subscribed to the directories.
C8_ParseAfterSubscription == StartedParsing => SubscriptionDone

\* C9: every parse of spec files uses a concept dictionary that holds the
\* concepts of all concept files handled so far.
C9_DictionaryCurrentAtParse ==
    [][SpecParseStep =>
         (CachedConceptNames \cap ConceptNamesOnDisk) \subseteq conceptDictionary'.concepts]_vars

\* C10: handling a Create event for a directory subscribes the watcher to it.
C10_NewDirectoryWatched == [][DirCreateHandled => eloc.event.Name \in watched']_vars

(***************************************************************************)
(* Go strings: sequences of one-character strings                          *)
(***************************************************************************)
HasPrefixAt(s, i, p) == i + Len(p) - 1 <= Len(s) /\ SubSeq(s, i, i + Len(p) - 1) = p

\* strings.Index, counting from 1; 0 when sub does not occur.
Index(s, sub) ==
    LET hits == {i \in 1..(Len(s) + 1) : HasPrefixAt(s, i, sub)}
    IN  IF hits = {} THEN 0 ELSE CHOOSE i \in hits : \A j \in hits : i <= j

Contains(s, sub) == Index(s, sub) # 0

RECURSIVE InsertBetween(_, _)
InsertBetween(s, new) ==
    IF s = << >> THEN new ELSE new \o <<Head(s)>> \o InsertBetween(Tail(s), new)

\* strings.Replace(s, old, new, -1): every non-overlapping occurrence, left to right.
RECURSIVE Replace(_, _, _)
Replace(s, old, new) ==
    IF old = << >> THEN InsertBetween(s, new)
    ELSE LET i == Index(s, old)
         IN  IF i = 0 THEN s
             ELSE SubSeq(s, 1, i - 1) \o new
                    \o Replace(SubSeq(s, i + Len(old), Len(s)), old, new)

RECURSIVE TrimLeft(_)
TrimLeft(s) == IF s # << >> /\ Head(s) = " " THEN TrimLeft(Tail(s)) ELSE s
RECURSIVE TrimRight(_)
TrimRight(s) ==
    IF s # << >> /\ s[Len(s)] = " " THEN TrimRight(SubSeq(s, 1, Len(s) - 1)) ELSE s
TrimSpace(s) == TrimRight(TrimLeft(s))

\* strconv.FormatBool
LitTrue == <<"t", "r", "u", "e">>
LitFalse == <<"f", "a", "l", "s", "e">>
FormatBool(b) == IF b THEN LitTrue ELSE LitFalse

(***************************************************************************)
(* types.Eval on the strings evaluateExp hands it: integer literals, the   *)
(* binary operators & and | (& binds tighter) and parentheses.  Anything   *)
(* else (a unary ! or &, the tokens && and ||, an identifier, a call, an   *)
(* empty or unbalanced expression) is an error.                            *)
(***************************************************************************)
Digits == {"0", "1"}

RECURSIVE DigitRun(_)
DigitRun(s) == IF s # << >> /\ Head(s) \in Digits THEN 1 + DigitRun(Tail(s)) ELSE 0

RECURSIVE ToNat(_, _)
ToNat(d, base) ==
    IF d = << >> THEN 0
    ELSE ToNat(SubSeq(d, 1, Len(d) - 1), base) * base + (IF d[Len(d)] = "1" THEN 1 ELSE 0)

\* A literal with a leading 0 is octal.
LitValue(d) == IF Len(d) > 1 /\ d[1] = "0" THEN ToNat(d, 8) ELSE ToNat(d, 10)

RECURSIVE BitAnd(_, _)
BitAnd(a, b) ==
    IF a = 0 \/ b = 0 THEN 0 ELSE (a % 2) * (b % 2) + 2 * BitAnd(a \div 2, b \div 2)
RECURSIVE BitOr(_, _)
BitOr(a, b) ==
    IF a = 0 THEN b ELSE IF b = 0 THEN a
    ELSE (IF a % 2 = 1 \/ b % 2 = 1 THEN 1 ELSE 0) + 2 * BitOr(a \div 2, b \div 2)

EvalFail == [ok |-> FALSE, v |-> 0, rest |-> << >>]

RECURSIVE GoOr(_)
RECURSIVE GoOrRest(_, _)
RECURSIVE GoAnd(_)
RECURSIVE GoAndRest(_, _)
RECURSIVE GoPrim(_)
GoPrim(s) ==
    IF s = << >> THEN EvalFail
    ELSE IF Head(s) \in Digits
    THEN LET n == DigitRun(s)
         IN  [ok |-> TRUE, v |-> LitValue(SubSeq(s, 1, n)), rest |-> SubSeq(s, n + 1, Len(s))]
    ELSE IF Head(s) = "("
    THEN LET r == GoOr(Tail(s))
         IN  IF r.ok /\ r.rest # << >> /\ Head(r.rest) = ")"
             THEN [r EXCEPT !.rest = Tail(r.rest)]
             ELSE EvalFail
    ELSE EvalFail
GoAndRest(left, s) ==
    IF s # << >> /\ Head(s) = "&"
    THEN LET r == GoPrim(Tail(s))
         IN  IF r.ok THEN GoAndRest(BitAnd(left, r.v), r.rest) ELSE EvalFail
    ELSE [ok |-> TRUE, v |-> left, rest |-> s]
GoAnd(s) == LET r == GoPrim(s) IN IF r.ok THEN GoAndRest(r.v, r.rest) ELSE EvalFail
GoOrRest(left, s) ==
    IF s # << >> /\ Head(s) = "|"
    THEN LET r == GoAnd(Tail(s))
         IN  IF r.ok THEN GoOrRest(BitOr(left, r.v), r.rest) ELSE EvalFail
    ELSE [ok |-> TRUE, v |-> left, rest |-> s]
GoOr(s) == LET r == GoAnd(s) IN IF r.ok THEN GoOrRest(r.v, r.rest) ELSE EvalFail

TypesEval(s) ==
    LET r == GoOr(s)
    IN  IF r.ok /\ r.rest = << >> THEN [ok |-> TRUE, v |-> r.v] ELSE [ok |-> FALSE, v |-> 0]

(***************************************************************************)
(* ScenarioFilterBasedOnTags (part_000)                                    *)
(***************************************************************************)
\* part_000:86-88
replaceSpecialChar(e) ==
    Replace(Replace(Replace(Replace(e, <<" ">>, << >>), <<",">>, <<"&">>),
                    <<"&", "&">>, <<"&">>),
            <<"|", "|">>, <<"|">>)

Operators == {"&", "|", "(", ")", "!"}

\* strings.FieldsFunc: the non-empty runs between operator characters.
RECURSIVE FieldsFunc(_, _)
FieldsFunc(s, cur) ==
    IF s = << >> THEN (IF cur = << >> THEN << >> ELSE <<cur>>)
    ELSE IF Head(s) \in Operators
    THEN (IF cur = << >> THEN << >> ELSE <<cur>>) \o FieldsFunc(Tail(s), << >>)
    ELSE FieldsFunc(Tail(s), Append(cur, Head(s)))

\* part_000:173-185
getOperatorsAndOperands(e) ==
    [listOfOperators |-> SelectSeq(e, LAMBDA c : c \in Operators),
     listOfTags |-> FieldsFunc(e, << >>)]

\* part_000:108-110
\* The opposite order: shorter first.
ByLength_Shorter(a, b) == Len(a) < Len(b)
ByLength_Less(a, b) == Len(a) > Len(b)

\* sort.Sort on a short slice: insertion sort.
RECURSIVE InsertSorted(_, _)
InsertSorted(sorted, t) ==
    IF sorted # << >> /\ ByLength_Less(t, sorted[Len(sorted)])
    THEN Append(InsertSorted(SubSeq(sorted, 1, Len(sorted) - 1), t), sorted[Len(sorted)])
    ELSE Append(sorted, t)
RECURSIVE SortByLength(_)
SortByLength(tags) ==
    IF tags = << >> THEN << >>
    ELSE InsertSorted(SortByLength(SubSeq(tags, 1, Len(tags) - 1)), tags[Len(tags)])

\* part_000:168-171
isTagPresent(tm, tagName) == tagName \in tm

\* The isTagQualified argument: isTagPresent for Filter, constant true for
\* validateTagExpression (part_000:216).
isTagQualified(m, tm, tagName) == IF m = "validate" THEN TRUE ELSE isTagPresent(tm, tagName)

\* part_000:94-96
RECURSIVE SubstituteTags(_, _, _, _)
SubstituteTags(exp, tags, m, tm) ==
    IF tags = << >> THEN exp
    ELSE SubstituteTags(Replace(exp, TrimSpace(Head(tags)),
                                FormatBool(isTagQualified(m, tm, TrimSpace(Head(tags))))),
                        Tail(tags), m, tm)

\* part_000:146-166
evaluateExp(e) ==
    LET s == Replace(Replace(e, LitTrue, <<"1">>), LitFalse, <<"0">>)
        val == TypesEval(s)
    IN  IF ~val.ok THEN [value |-> FALSE, err |-> TRUE]
        ELSE [value |-> (val.v = 1), err |-> FALSE]

NotOpen == <<"!", "(">>

\* The bracket scan of resolveBracketExpression from index i (part_000:133-141):
\* the index at which the loop stops.
RECURSIVE ScanBrackets(_, _, _)
ScanBrackets(e, i, depth) ==
    IF i > Len(e) THEN i
    ELSE LET d == IF e[i] = "(" THEN depth + 1
                  ELSE IF e[i] = ")" THEN depth - 1 ELSE depth
         IN  IF d = 0 THEN i ELSE ScanBrackets(e, i + 1, d)

\* part_000:129-144
resolveBracketExpression(e) ==
    LET indexOfOpenBracket == Index(e, NotOpen) + 1
        i == ScanBrackets(e, indexOfOpenBracket, 0)
    IN  SubSeq(e, indexOfOpenBracket + 1, i - 1)

\* part_000:120-127
RECURSIVE evaluateBrackets(_)
evaluateBrackets(e) ==
    IF Contains(e, NotOpen)
    THEN LET innerText == resolveBracketExpression(e)
         IN  Replace(e, NotOpen \o innerText \o <<")">>, evaluateBrackets(innerText))
    ELSE FormatBool(~evaluateExp(e).value)

(***************************************************************************)
(* One call of Filter, or of validateTagExpression                         *)
(***************************************************************************)
MaxLen == 3

Alphabet == {"x", "y", "!", "&", "|", "(", ")", " ", ","}
AllStrings == UNION {[1..k -> Alphabet] : k \in 0..MaxLen}

TagX == <<"x">>
TagY == <<"y">>
TagNames == {TagX, TagY}
BinaryOps == {<<"&">>, <<"|">>}
Negated(e) == NotOpen \o e \o <<")">>

\* Well-formed expressions with negated groups, nested up to two deep.
Level1 ==
    TagNames \cup {<<"!">> \o t : t \in TagNames}
             \cup {a \o op \o b : a \in TagNames, op \in BinaryOps, b \in TagNames}
Groups == {Negated(e) : e \in Level1}
Level2 == Groups \cup {a \o op \o g : a \in TagNames, op \in BinaryOps, g \in Groups}
NestedGroups == {Negated(e) : e \in Level2}
WellFormedExps == Level1 \cup Level2 \cup NestedGroups

\* Expressions with a missing operand, a missing operator or an unclosed group.
IllFormedExps ==
    {e \o op : e \in Level1, op \in BinaryOps}
      \cup {Negated(e \o op) : e \in Level1, op \in BinaryOps}
      \cup {g \o t : g \in Groups, t \in TagNames}
      \cup {NotOpen \o e : e \in Level1}

\* Tag names of two operands: one that occurs inside the literals true and false,
\* and one that is a proper prefix of another.
TagE == <<"e">>
TagLong == <<"l", "o", "n", "g">>
TagLonger == <<"l", "o", "n", "g", "e", "r">>
PairTags == {TagE, TagX, TagLong, TagLonger}
PairExp(a, op, b) == a \o <<" ">> \o op \o <<" ">> \o b
PairExps == PairTags \cup {PairExp(a, op, b) : a \in PairTags, op \in BinaryOps, b \in PairTags}

TagExps == AllStrings \cup WellFormedExps \cup IllFormedExps \cup PairExps

Scenario(values) == [Kind |-> "ScenarioKind", HasTags |-> TRUE, Values |-> values]
UntaggedScenario == [Kind |-> "ScenarioKind", HasTags |-> FALSE, Values |-> << >>]
StepItem == [Kind |-> "StepKind", HasTags |-> FALSE, Values |-> << >>]
Items ==
    {UntaggedScenario, StepItem}
      \cup {Scenario(v) : v \in {<< >>, <<TagX>>, <<TagY>>, <<TagX, TagY>>,
                                 <<<<"x", " ", "y">>>>, <<TagE>>, <<TagLong>>,
                                 <<TagLonger>>, <<TagLong, TagLonger>>}}
SpecTagValues == {<< >>, <<TagX>>}

TInit ==
    /\ mode \in {"Filter", "validate"}
    /\ tpc = IF mode = "Filter" THEN "Filter" ELSE "validateTagExpression"
    /\ tagExp \in TagExps
    /\ tagExpression = tagExp
    /\ item \in IF mode = "Filter" THEN Items ELSE {[Kind |-> "none"]}
    /\ specTags \in IF mode = "Filter" THEN SpecTagValues ELSE {<< >>}
    /\ tagsMap = {} /\ expToBeEvaluated = << >> /\ value = FALSE /\ err = FALSE
    /\ result = ""

SeqToSet(s) == {s[i] : i \in DOMAIN s}

\* part_000:65-74 and 77-80: Filter on an item, up to the tags map of filterTags.
Filter ==
    /\ tpc = "Filter"
    /\ IF item.Kind = "ScenarioKind"
       THEN LET stags == IF ~item.HasTags THEN specTags ELSE item.Values \o specTags
            IN  /\ tagsMap' = {Replace(tag, <<" ">>, << >>) : tag \in SeqToSet(stags)}
                /\ tpc' = "replaceSpecialChar"
                /\ result' = result
       ELSE /\ result' = "false"
            /\ tpc' = "done"
            /\ tagsMap' = tagsMap
    /\ UNCHANGED <<gvars, xvars, item, specTags, tagExp, tagExpression, mode, expToBeEvaluated,
                   value, err>>

\* part_000:81
filterTags_replaceSpecialChar ==
    /\ tpc = "replaceSpecialChar"
    /\ tagExpression' = replaceSpecialChar(tagExpression)
    /\ tpc' = "formatAndEvaluateExpression"
    /\ UNCHANGED <<gvars, xvars, item, specTags, tagExp, tagsMap, mode, expToBeEvaluated,
                   value, err, result>>

\* part_000:213-215
validateTagExpression ==
    /\ tpc = "validateTagExpression"
    /\ tagExpression' = replaceSpecialChar(tagExp)
    /\ tagsMap' = {}
    /\ tpc' = "formatAndEvaluateExpression"
    /\ UNCHANGED <<gvars, xvars, item, specTags, tagExp, mode, expToBeEvaluated, value, err, result>>

\* part_000:91-96
formatAndEvaluateExpression ==
    /\ tpc = "formatAndEvaluateExpression"
    /\ LET tags == getOperatorsAndOperands(tagExpression).listOfTags
       IN  expToBeEvaluated' = SubstituteTags(tagExpression, SortByLength(tags), mode, tagsMap)
    /\ tpc' = "handleNegation"
    /\ UNCHANGED <<gvars, xvars, item, specTags, tagExp, tagExpression, tagsMap, mode,
                   value, err, result>>

\* part_000:113
handleNegation ==
    /\ tpc = "handleNegation"
    /\ expToBeEvaluated' =
          Replace(Replace(expToBeEvaluated, <<"!">> \o LitTrue, LitFalse),
                  <<"!">> \o LitFalse, LitTrue)
    /\ tpc' = "handleNegation_loop"
    /\ UNCHANGED <<gvars, xvars, item, specTags, tagExp, tagExpression, tagsMap, mode,
                   value, err, result>>

\* part_000:114-116: one iteration of the loop.
handleNegation_Loop ==
    /\ tpc = "handleNegation_loop"
    /\ Contains(expToBeEvaluated, NotOpen)
    /\ expToBeEvaluated' = evaluateBrackets(expToBeEvaluated)
    /\ UNCHANGED <<gvars, xvars, tpc, item, specTags, tagExp, tagExpression, tagsMap, mode,
                   value, err, result>>

\* part_000:117 and 97: the loop ends, the result is evaluated.
handleNegation_Return ==
    /\ tpc = "handleNegation_loop"
    /\ ~Contains(expToBeEvaluated, NotOpen)
    /\ value' = evaluateExp(expToBeEvaluated).value
    /\ err' = evaluateExp(expToBeEvaluated).err
    /\ tpc' = "return"
    /\ UNCHANGED <<gvars, xvars, item, specTags, tagExp, tagExpression, tagsMap, mode,
                   expToBeEvaluated, result>>

\* part_000:82-83 and 70/72: filterTags drops the error, Filter negates the value.
Filter_Return ==
    /\ tpc = "return" /\ mode = "Filter"
    /\ result' = IF ~value THEN "true" ELSE "false"
    /\ tpc' = "done"
    /\ UNCHANGED <<gvars, xvars, item, specTags, tagExp, tagExpression, tagsMap, mode,
                   expToBeEvaluated, value, err>>

\* part_000:217-219
validateTagExpression_Return ==
    /\ tpc = "return" /\ mode = "validate"
    /\ result' = IF err THEN "Fatalf" ELSE "ok"
    /\ tpc' = "done"
    /\ UNCHANGED <<gvars, xvars, item, specTags, tagExp, tagExpression, tagsMap, mode,
                   expToBeEvaluated, value, err>>

InitTags == GInit /\ TInit /\ XInit0

NextTags ==
    \/ Filter
    \/ filterTags_replaceSpecialChar
    \/ validateTagExpression
    \/ formatAndEvaluateExpression
    \/ handleNegation
    \/ handleNegation_Loop
    \/ handleNegation_Return
    \/ Filter_Return
    \/ validateTagExpression_Return

SpecTags == InitTags /\ [][NextTags]_vars

(***************************************************************************)
(* Standard boolean semantics of tag expressions: ! > & > |                *)
(***************************************************************************)
OpToken(op) == [op |-> op, tag |-> << >>]
TagToken(t) == [op |-> "tag", tag |-> t]

\* Whitespace is insignificant; & && and , are conjunction, | and || disjunction;
\* a run of other characters is a tag name.
RECURSIVE RefTokens(_, _)
RefTokens(s, cur) ==
    LET flush == IF cur = << >> THEN << >> ELSE <<TagToken(cur)>>
    IN  IF s = << >> THEN flush
        ELSE IF Head(s) = " " THEN RefTokens(Tail(s), cur)
        ELSE IF HasPrefixAt(s, 1, <<"&", "&">>) \/ HasPrefixAt(s, 1, <<"|", "|">>)
        THEN flush \o <<OpToken(Head(s))>> \o RefTokens(SubSeq(s, 3, Len(s)), << >>)
        ELSE IF Head(s) = ","
        THEN flush \o <<OpToken("&")>> \o RefTokens(Tail(s), << >>)
        ELSE IF Head(s) \in Operators
        THEN flush \o <<OpToken(Head(s))>> \o RefTokens(Tail(s), << >>)
        ELSE RefTokens(Tail(s), Append(cur, Head(s)))

RefFail == [ok |-> FALSE, v |-> FALSE, rest |-> << >>]
IsOp(toks, op) == toks # << >> /\ Head(toks).op = op

RECURSIVE RefOr(_, _)
RECURSIVE RefOrRest(_, _, _)
RECURSIVE RefAnd(_, _)
RECURSIVE RefAndRest(_, _, _)
RECURSIVE RefNot(_, _)
RECURSIVE RefAtom(_, _)
RefAtom(toks, T) ==
    IF IsOp(toks, "tag")
    THEN [ok |-> TRUE, v |-> Head(toks).tag \in T, rest |-> Tail(toks)]
    ELSE IF IsOp(toks, "(")
    THEN LET r == RefOr(Tail(toks), T)
         IN  IF r.ok /\ IsOp(r.rest, ")") THEN [r EXCEPT !.rest = Tail(r.rest)] ELSE RefFail
    ELSE RefFail
RefNot(toks, T) ==
    IF IsOp(toks, "!")
    THEN LET r == RefNot(Tail(toks), T) IN IF r.ok THEN [r EXCEPT !.v = ~r.v] ELSE RefFail
    ELSE RefAtom(toks, T)
RefAndRest(left, toks, T) ==
    IF IsOp(toks, "&")
    THEN LET r == RefNot(Tail(toks), T)
         IN  IF r.ok THEN RefAndRest(left /\ r.v, r.rest, T) ELSE RefFail
    ELSE [ok |-> TRUE, v |-> left, rest |-> toks]
RefAnd(toks, T) ==
    LET r == RefNot(toks, T) IN IF r.ok THEN RefAndRest(r.v, r.rest, T) ELSE RefFail
RefOrRest(left, toks, T) ==
    IF IsOp(toks, "|")
    THEN LET r == RefAnd(Tail(toks), T)
         IN  IF r.ok THEN RefOrRest(left \/ r.v, r.rest, T) ELSE RefFail
    ELSE [ok |-> TRUE, v |-> left, rest |-> toks]
RefOr(toks, T) ==
    LET r == RefAnd(toks, T) IN IF r.ok THEN RefOrRest(r.v, r.rest, T) ELSE RefFail

RefParse(e, T) == RefOr(RefTokens(e, << >>), T)
WellFormed(e) == RefParse(e, {}).ok /\ RefParse(e, {}).rest = << >>
StandardValue(e, T) == RefParse(e, T).v

\* formatAndEvaluateExpression has returned to its caller.
Evaluated == tpc \in {"return", "done"} /\ item.Kind # "StepKind"

(***************************************************************************)
(* Claims about the tag filter                                             *)
(***************************************************************************)
\* C2: for every well-formed tag expression and every tag set, the evaluator's
\* result is the expression's value under standard boolean semantics.
C2_EvaluatorIsBoolean ==
    (Evaluated /\ mode = "Filter" /\ WellFormed(tagExp)) =>
        (value = StandardValue(tagExp, tagsMap))

\* C4: with the empty tag expression, Filter retains every scenario.
C4_EmptyExpressionRetains ==
    (tpc = "done" /\ mode = "Filter" /\ item.Kind = "ScenarioKind" /\ tagExp = << >>) =>
        (result = "false")

\* The error of the evaluateExp call inside evaluateBrackets (part_000:125),
\* which evaluateBrackets assigns to the blank identifier.
RECURSIVE evaluateBrackets_err(_)
evaluateBrackets_err(e) ==
    IF Contains(e, NotOpen)
    THEN evaluateBrackets_err(resolveBracketExpression(e))
    ELSE evaluateExp(e).err

\* C3 (error propagation): an evaluation error in a sub-expression of a negated
\* group aborts validateTagExpression's evaluation with that error; the group is
\* not replaced by a boolean value.
C3_SubExpressionErrorAborts ==
    [][(/\ mode = "validate" /\ tpc = "handleNegation_loop"
        /\ Contains(expToBeEvaluated, NotOpen)
        /\ evaluateBrackets_err(expToBeEvaluated))
         => (tpc' = "return" /\ err')]_vars

(***************************************************************************)
(* Claims about the gatherer's event handlers                              *)
(***************************************************************************)
\* The event goroutine is handling a Remove or Rename event, and takes this step.
RemoveHandlerStep ==
    /\ eloc.event.Op \in {"Remove", "Rename"}
    /\ epc \in {"onSpecFileRemove", "onConceptFileRemove", "sr_lock", "cr_lock",
                "sr_delete", "cr_delete", "e_done"}
    /\ epc' # epc

\* The map without key k; the other entries as they were.
Without(m, k) == [f \in DOMAIN m \ {k} |-> m[f]]

\* C11: handling a Remove or Rename event for a spec (concept) file deletes
\* that file's entry from specsCache (conceptsCache) and changes nothing else
\* in the three caches; the steps of the removed file stay in stepsCache.
C11_RemoveDeletesOnlyTheEntry ==
    [][RemoveHandlerStep =>
         /\ stepsCache' = stepsCache
         /\ specsCache'.m =
               IF epc = "sr_delete" THEN Without(specsCache.m, eloc.event.Name)
               ELSE specsCache.m
         /\ conceptsCache'.m =
               IF epc = "cr_delete" THEN Without(conceptsCache.m, eloc.event.Name)
               ELSE conceptsCache.m]_vars

\* C11 witness: the Remove of specs/s1.spec has been handled; its entry is gone,
\* the entry of specs/sub/s2.spec and the concepts cache are as they were, and
\* the steps cache still holds the step t that only the removed file had.
C11_RemovedFileStepsStay ==
    /\ epc = "e_done" /\ eloc.event = [Name |-> SpecFile1, Op |-> "Remove"]
    /\ DOMAIN specsCache.m = {SpecFile2}
    /\ DOMAIN conceptsCache.m = {ConceptFile1}
    /\ "t" \in DOMAIN stepsCache.m

\* The event goroutine is about to parse the file of a Create or Write event,
\* and the file does not parse.
ParseFails ==
    \/ epc = "sm_parse" /\ disk[eloc.event.Name].kind # "spec"
    \/ epc = "cm_parse" /\ disk[eloc.event.Name].kind # "cpt"

\* The handler of a Create or Write event is returning and has parsed nothing.
FailedAtDone ==
    /\ epc = "e_done" /\ eloc.event.Op \in {"Create", "Write"} /\ eloc.parsed = << >>

\* C12: when the file of a Create or Write event fails to parse, the handler
\* changes none of the three caches and returns without a panic; the event
\* goroutine releases the latch and is back at receiving events.
C12_ParseFailureChangesNothing ==
    [][((ParseFails \/ FailedAtDone) /\ epc' # epc) =>
         /\ specsCache' = specsCache /\ conceptsCache' = conceptsCache
         /\ stepsCache' = stepsCache
         /\ ~panicked'
         /\ ParseFails => (epc' = "e_done" /\ eloc'.parsed = << >>)
         /\ FailedAtDone => (epc' = "e_recv" /\ wg' = wg - 1)]_vars

\* C12 witness: a Write of unparsable text to a cached spec file has been
\* handled; the caches still hold what they held.
C12_FailedWriteHandled ==
    /\ FailedAtDone /\ eloc.event.Op = "Write" /\ disk[eloc.event.Name] = BadText
    /\ eloc.event.Name \in DOMAIN specsCache.m
    /\ DOMAIN stepsCache.m # {}

(***************************************************************************)
(* The gatherer under fair scheduling                                      *)
(***************************************************************************)
\* A goroutine that can run is run; a goroutine waiting for the mutex gets it
\* (sync.Mutex does not starve a waiter).  Requests and file-system changes come
\* when they come.
ReaderRuns == reader_Wait \/ reader_Lock \/ reader_Read \/ reader_Respond

\* A project that starts with one file and sees one change.
InitOneFile ==
    /\ GStart /\ TInit0 /\ XInit0 /\ fsOps = MaxFsOps - 1
    /\ disk \in {SmallDisk, [EmptyDisk EXCEPT ![ConceptFile1] = ConceptTextK]}

FairSpec ==
    /\ InitOneFile /\ [][Next]_vars
    /\ SF_vars(MainNext) /\ SF_vars(WatcherNext) /\ SF_vars(EventsNext) /\ SF_vars(ReaderRuns)

\* The step-names request to the runner has failed or timed out.
RunnerRequestFailed == mpc \in {"t_lock", "t_add", "t_done"} /\ mloc.err

\* The signatures of a list of step values.
Signatures(steps) == {steps[i].StepValue : i \in DOMAIN steps}

\* C13: when the step-names request fails, the steps initStepsCache adds are
\* those of the cached concepts and specs and no others, initialisation
\* completes, and a reader that waits returns.
C13_InitCompletesWithoutRunner ==
    /\ [][(mpc = "t_implemented" /\ mpc' = "t_lock" /\ mloc'.err) =>
             mloc'.allSteps = mloc.stepsFromConcepts \o mloc.stepsFromSpecs]_vars
    /\ [][(RunnerRequestFailed /\ mpc = "t_add" /\ mpc' = "t_done") =>
             /\ DOMAIN stepsCache'.m =
                   DOMAIN stepsCache.m
                     \cup Signatures(mloc.stepsFromConcepts \o mloc.stepsFromSpecs)
             /\ \A k \in DOMAIN stepsCache'.m \ DOMAIN stepsCache.m :
                   \E i \in DOMAIN mloc.allSteps : stepsCache'.m[k] = mloc.allSteps[i]]_vars
    /\ RunnerRequestFailed ~> InitialPopulationDone
    /\ (RunnerRequestFailed /\ rpc = "r_wait") ~> (rpc = "r_returned")

\* C13 witness: initialisation has completed after a failed request, and the
\* steps cache holds the steps of the cached concept and spec.
C13_CompletedWithoutRunner ==
    /\ mpc = "t_done" /\ mloc.err
    /\ RunnerSteps[1].sig \in DOMAIN stepsCache.m
    /\ stepsCache.m[RunnerSteps[1].sig].Args # RunnerSteps[1].arg

(***************************************************************************)
(* The API message handler (part_001:139-338), one connection              *)
(***************************************************************************)
MaxId == 2
MaxMessages == 2

\* The ids a client or common.GetUniqueID can come up with.
Ids == 1..MaxId

\* Step texts a client asks the value of; the empty text does not parse.
StepTexts == {"say <what>", ""}
\* Languages a client asks the library path of: installed with runner info,
\* installed without readable runner info, and not installed.
Languages == {"java", "ruby", "cobol"}

RequestTypes ==
    {"GetProjectRootRequest", "GetInstallationRootRequest", "GetAllStepsRequest",
     "GetAllSpecsRequest", "GetStepValueRequest", "GetLanguagePluginLibPathRequest",
     "GetAllConceptsRequest", "PerformRefactoringRequest", "ExtractConceptRequest",
     "FormatSpecsRequest"}
\* A message type of a newer client, not among the cases of the switch.
OtherTypes == {"GetAllTagsRequest"}

Requests ==
    {[MessageType |-> t, MessageId |-> id, Text |-> x] :
        t \in RequestTypes \cup OtherTypes, id \in Ids, x \in StepTexts \cup Languages}

\* What can arrive: the encoding of a request whose payload belongs to its
\* type, or bytes that are no message.
Inputs ==
    {[ok |-> TRUE, message |-> r] :
        r \in {q \in Requests :
                 CASE q.MessageType = "GetStepValueRequest" -> q.Text \in StepTexts
                   [] q.MessageType = "GetLanguagePluginLibPathRequest" -> q.Text \in Languages
                   [] OTHER -> q.Text = ""}}
      \cup {[ok |-> FALSE, message |-> NoMessage]}

\* parser.ExtractStepValueAndParams: the error, "" for none.
ExtractStepValueAndParams(stepText) == IF stepText = "" THEN "Step is empty" ELSE ""
\* plugin.GetInstallDir and runner.GetRunnerInfo: the error, "" for none.
GetInstallDir(language) == IF language = "cobol" THEN "Plugin cobol not installed" ELSE ""
GetRunnerInfo(language) == IF language = "ruby" THEN "Runner info not found" ELSE ""

\* common.GetUniqueID: some id.
GetUniqueID == Ids

OutsideAPI == UNCHANGED <<gvars, tvars, ivars, dvars, pvars, svars, rvars>>

\* A request arrives on the connection (part_001:144 is called with it).
api_Receive ==
    /\ apc = "idle" /\ Len(connection) < MaxMessages
    /\ \E b \in Inputs : bytesRead' = b /\ received' = Append(received, b)
    /\ apc' = "MessageBytesReceived"
    /\ apiMessage' = NoMessage /\ responseMessage' = NoMessage /\ herr' = ""
    /\ UNCHANGED connection /\ OutsideAPI

\* A switch whose default case is the error path.
HandlerForKnownOnly(messageType) ==
    IF messageType = "GetProjectRootRequest" THEN "projectRootRequestResponse"
    ELSE "getErrorMessage"

\* The name of the handler the switch selects.
HandlerFor(messageType) ==
    CASE messageType = "GetProjectRootRequest" -> "projectRootRequestResponse"
      [] messageType = "GetInstallationRootRequest" -> "installationRootRequestResponse"
      [] messageType = "GetAllStepsRequest" -> "getAllStepsRequestResponse"
      [] messageType = "GetAllSpecsRequest" -> "getAllSpecsRequestResponse"
      [] messageType = "GetStepValueRequest" -> "getStepValueRequestResponse"
      [] messageType = "GetLanguagePluginLibPathRequest" -> "getLanguagePluginLibPath"
      [] messageType = "GetAllConceptsRequest" -> "getAllConceptsRequestResponse"
      [] messageType = "PerformRefactoringRequest" -> "performRefactoring"
      [] messageType = "ExtractConceptRequest" -> "extractConcept"
      [] messageType = "FormatSpecsRequest" -> "formatSpecs"
      [] OTHER -> "createUnsupportedAPIMessageResponse"

\* A handler that returns on undecodable bytes without answering them.
MessageBytesReceived_DropUndecodable ==
    /\ apc = "MessageBytesReceived"
    /\ IF bytesRead.ok
         THEN /\ apiMessage' = bytesRead.message
              /\ apc' = HandlerFor(bytesRead.message.MessageType)
              /\ herr' = herr
         ELSE /\ apiMessage' = apiMessage
              /\ herr' = "proto: cannot unmarshal"
              /\ apc' = "idle"
    /\ UNCHANGED <<bytesRead, responseMessage, connection>> /\ UNCHANGED received /\ OutsideAPI

\* part_001:144-188: decode, and select the handler.
MessageBytesReceived ==
    /\ apc = "MessageBytesReceived"
    /\ IF bytesRead.ok
         THEN /\ apiMessage' = bytesRead.message
              /\ apc' = HandlerFor(bytesRead.message.MessageType)
              /\ herr' = herr
         ELSE /\ apiMessage' = apiMessage
              /\ herr' = "proto: cannot unmarshal"
              /\ apc' = "getErrorMessage"
    /\ UNCHANGED <<bytesRead, responseMessage, connection>> /\ UNCHANGED received /\ OutsideAPI

\* A response of the given type that echoes the request's MessageId.
ResponseTo(message, messageType, text) ==
    [MessageType |-> messageType, MessageId |-> message.MessageId, Text |-> text]

\* What a handler does that answers at once.
Respond(messageType, text) ==
    /\ responseMessage' = ResponseTo(apiMessage, messageType, text)
    /\ apc' = "sendMessage"
    /\ UNCHANGED <<bytesRead, apiMessage, herr, connection>> /\ UNCHANGED received /\ OutsideAPI

projectRootRequestResponse ==
    /\ apc = "projectRootRequestResponse"
    /\ Respond("GetProjectRootResponse", "/project")

installationRootRequestResponse ==
    \E root \in {"/usr/local", ""} :
        /\ apc = "installationRootRequestResponse"
        /\ Respond("GetInstallationRootResponse", root)

getAllStepsRequestResponse ==
    /\ apc = "getAllStepsRequestResponse"
    /\ Respond("GetAllStepResponse", "")

getAllSpecsRequestResponse ==
    /\ apc = "getAllSpecsRequestResponse"
    /\ Respond("GetAllSpecsResponse", "")

getAllConceptsRequestResponse ==
    /\ apc = "getAllConceptsRequestResponse"
    /\ Respond("GetAllConceptsResponse", "")

performRefactoring ==
    /\ apc = "performRefactoring"
    /\ Respond("PerformRefactoringResponse", "")

extractConcept ==
    /\ apc = "extractConcept"
    /\ Respond("ExtractConceptResponse", "")

formatSpecs ==
    /\ apc = "formatSpecs"
    /\ Respond("FormatSpecsResponse", "")

createUnsupportedAPIMessageResponse ==
    /\ apc = "createUnsupportedAPIMessageResponse"
    /\ Respond("UnsupportedApiMessageResponse", "")

\* part_001:233-245.
getStepValueRequestResponse ==
    /\ apc = "getStepValueRequestResponse"
    /\ LET e == ExtractStepValueAndParams(apiMessage.Text) IN
         IF e # ""
           THEN /\ herr' = e /\ apc' = "getErrorResponse"
                /\ UNCHANGED responseMessage
           ELSE /\ responseMessage' =
                      ResponseTo(apiMessage, "GetStepValueResponse", apiMessage.Text)
                /\ apc' = "sendMessage" /\ UNCHANGED herr
    /\ UNCHANGED <<bytesRead, apiMessage, connection>> /\ UNCHANGED received /\ OutsideAPI

\* part_001:252-267.
getLanguagePluginLibPath ==
    /\ apc = "getLanguagePluginLibPath"
    /\ LET language == apiMessage.Text IN
         IF GetInstallDir(language) # ""
           THEN /\ herr' = GetInstallDir(language) /\ apc' = "getErrorMessage"
                /\ UNCHANGED responseMessage
           ELSE IF GetRunnerInfo(language) # ""
             THEN /\ herr' = GetRunnerInfo(language) /\ apc' = "getErrorMessage"
                  /\ UNCHANGED responseMessage
             ELSE /\ responseMessage' =
                        ResponseTo(apiMessage, "GetLanguagePluginLibPathResponse", "/lib")
                  /\ apc' = "sendMessage" /\ UNCHANGED herr
    /\ UNCHANGED <<bytesRead, apiMessage, connection>> /\ UNCHANGED received /\ OutsideAPI

\* part_001:269-273: the error response for a request.
getErrorResponse ==
    /\ apc = "getErrorResponse"
    /\ responseMessage' = ResponseTo(apiMessage, "ErrorResponse", herr)
    /\ apc' = "sendMessage"
    /\ UNCHANGED <<bytesRead, apiMessage, herr, connection>> /\ UNCHANGED received /\ OutsideAPI

\* part_001:275-279: an error response with an id of its own.
getErrorMessage ==
    /\ apc = "getErrorMessage"
    /\ \E id \in GetUniqueID :
          responseMessage' = [MessageType |-> "ErrorResponse", MessageId |-> id, Text |-> herr]
    /\ apc' = "sendMessage"
    /\ UNCHANGED <<bytesRead, apiMessage, herr, connection>> /\ UNCHANGED received /\ OutsideAPI

\* part_001:192-201: write the response; MessageBytesReceived returns.
sendMessage ==
    /\ apc = "sendMessage"
    /\ connection' = Append(connection, responseMessage)
    /\ apc' = "idle"
    /\ UNCHANGED <<bytesRead, apiMessage, herr, responseMessage>> /\ UNCHANGED received /\ OutsideAPI

AInit ==
    /\ apc = "idle" /\ bytesRead = [ok |-> FALSE, message |-> NoMessage]
    /\ apiMessage = NoMessage /\ herr = "" /\ responseMessage = NoMessage
    /\ connection = << >> /\ received = << >>

InitAPI == GInit /\ TInit0 /\ AInit /\ IInit0 /\ DInit0 /\ PInit0 /\ SInit0 /\ RInit0

NextAPI ==
    \/ api_Receive
    \/ MessageBytesReceived
    \/ projectRootRequestResponse
    \/ installationRootRequestResponse
    \/ getAllStepsRequestResponse
    \/ getAllSpecsRequestResponse
    \/ getStepValueRequestResponse
    \/ getLanguagePluginLibPath
    \/ getAllConceptsRequestResponse
    \/ performRefactoring
    \/ extractConcept
    \/ formatSpecs
    \/ createUnsupportedAPIMessageResponse
    \/ getErrorResponse
    \/ getErrorMessage
    \/ sendMessage

SpecAPI == InitAPI /\ [][NextAPI]_vars

\* A handler has failed: the response is an error response to a decoded request.
HandlerFailed ==
    /\ apc = "sendMessage" /\ bytesRead.ok
    /\ responseMessage.MessageType = "ErrorResponse"

\* C14: the error response of a failed handler carries the MessageId of the
\* request, for every request type.
C14_ErrorEchoesMessageId ==
    HandlerFailed => responseMessage.MessageId = apiMessage.MessageId

\* C14 witness: the step-value handler has failed and its error response
\* carries the request's MessageId.
C14_StepValueErrorEchoes ==
    /\ HandlerFailed /\ apiMessage.MessageType = "GetStepValueRequest"
    /\ responseMessage.MessageId = apiMessage.MessageId

(***************************************************************************)
(* Claims about Filter                                                     *)
(***************************************************************************)
\* The tags that count for the item: the scenario's own and the spec's,
\* compared without their spaces.
EffectiveTags ==
    {Replace(tag, <<" ">>, << >>) :
        tag \in IF item.HasTags THEN SeqToSet(item.Values) \cup SeqToSet(specTags)
                ELSE SeqToSet(specTags)}

\* C15: Filter retains a scenario exactly when the tag expression is true on the
\* scenario's tags together with the spec's tags, and retains every item that
\* is not a scenario.
C15_RetainIffTrueOnUnion ==
    (tpc = "done" /\ mode = "Filter") =>
        IF item.Kind = "ScenarioKind"
        THEN WellFormed(tagExp) =>
                (result = "false" <=> StandardValue(tagExp, EffectiveTags))
        ELSE result = "false"

\* C15 witness: a scenario without the tag is retained for the tag of its spec.
C15_RetainedForSpecTag ==
    /\ tpc = "done" /\ mode = "Filter" /\ item.Kind = "ScenarioKind"
    /\ tagExp = TagX /\ TagX \notin SeqToSet(item.Values) /\ TagX \in SeqToSet(specTags)
    /\ result = "false"

\* The expression is made of tag names, spaces, ',', '&' and '|' only.
PlainExpression(e) == \A i \in DOMAIN e : e[i] \in {"x", "y", " ", ",", "&", "|"}

\* C16: normalising the normalised expression changes nothing.
C16_NormaliseIdempotent ==
    (mode = "Filter" /\ tpc = "formatAndEvaluateExpression" /\ PlainExpression(tagExp)) =>
        /\ tagExpression = replaceSpecialChar(tagExp)
        /\ replaceSpecialChar(tagExpression) = tagExpression

\* C16 witness: a run of two operators has been normalised to one, and
\* normalising again changes nothing.
C16_PairNormalised ==
    /\ mode = "Filter" /\ tpc = "formatAndEvaluateExpression"
    /\ tagExp = <<"x", ",", ",">>
    /\ tagExpression = <<"x", "&">>
    /\ replaceSpecialChar(tagExpression) = tagExpression

(***************************************************************************)
(* Claims about two operands                                               *)
(***************************************************************************)
\* formatAndEvaluateExpression (part_000:90-98) on an expression without a
\* negated group, which handleNegation returns as it is.
evaluate(exp, T) ==
    LET normalised == replaceSpecialChar(exp)
        tags == getOperatorsAndOperands(normalised).listOfTags
    IN  evaluateExp(SubstituteTags(normalised, SortByLength(tags), "Filter", T)).value

\* C17: an expression of two tag names joined by & or | has the value of the
\* expression with the two names exchanged, on every tag set.
C17_OperandsCommute ==
    \A a \in PairTags, b \in PairTags, op \in BinaryOps :
        (Evaluated /\ mode = "Filter" /\ tagExp = PairExp(a, op, b)) =>
            (value = evaluate(PairExp(b, op, a), tagsMap))

\* C17 witness: x & long has been evaluated and long & x has the same value.
C17_CommutesForDistinctLengths ==
    /\ Evaluated /\ mode = "Filter" /\ tagExp = PairExp(TagX, <<"&">>, TagLong)
    /\ tagsMap = {TagX, TagLong}
    /\ value /\ evaluate(PairExp(TagLong, <<"&">>, TagX), tagsMap)

\* C18: when one operand is a proper prefix of the other, each operand gets its
\* own membership value: the expression has its boolean value; with the tags
\* {longer}, long & longer is false and longer is true.
C18_PrefixSafe ==
    (Evaluated /\ mode = "Filter") =>
        /\ \A a \in {TagLong, TagLonger}, b \in {TagLong, TagLonger}, op \in BinaryOps :
              (tagExp = PairExp(a, op, b)) => (value = StandardValue(tagExp, tagsMap))
        /\ (tagsMap = {TagLonger} /\ tagExp = PairExp(TagLong, <<"&">>, TagLonger)) => ~value
        /\ (tagsMap = {TagLonger} /\ tagExp = TagLonger) => value

\* C18 witness: long | longer has been evaluated on {longer} and is true.
C18_LongerAlone ==
    /\ Evaluated /\ mode = "Filter" /\ tagsMap = {TagLonger}
    /\ tagExp = PairExp(TagLong, <<"|">>, TagLonger)
    /\ expToBeEvaluated = LitFalse \o <<"|">> \o LitTrue
    /\ value

(***************************************************************************)
(* The index filter (part_000:35-59) applied to a specification's items    *)
(***************************************************************************)
MaxItems == 4
MaxIndex == 4

ItemKinds == {"ScenarioKind", "StepKind", "CommentKind"}
ItemLists == UNION {[1..n -> ItemKinds] : n \in 0..MaxItems}

\* part_000:44-46
newScenarioIndexFilterToRetain(index) ==
    [indexToNotFilter |-> index, currentScenarioIndex |-> 0]

\* A Filter that counts only the scenarios it removes.
scenarioIndexFilterToRetain_FilterNotCounting(filter, kind) ==
    IF kind = "ScenarioKind" /\ filter.currentScenarioIndex # filter.indexToNotFilter
    THEN [filter |-> [filter EXCEPT !.currentScenarioIndex = @ + 1], return |-> TRUE]
    ELSE [filter |-> filter, return |-> FALSE]

\* part_000:48-59: the filter after the call, and what the call returns
\* (true: the item is removed).
scenarioIndexFilterToRetain_Filter(filter, kind) ==
    IF kind = "ScenarioKind"
    THEN IF filter.currentScenarioIndex # filter.indexToNotFilter
         THEN [filter |-> [filter EXCEPT !.currentScenarioIndex = @ + 1], return |-> TRUE]
         ELSE [filter |-> [filter EXCEPT !.currentScenarioIndex = @ + 1], return |-> FALSE]
    ELSE [filter |-> filter, return |-> FALSE]

OutsideIndex == UNCHANGED <<gvars, tvars, avars, dvars, pvars, svars, rvars>>

\* The filter is created for an index.
index_New ==
    /\ ipc = "new"
    /\ \E index \in 0..MaxIndex : ifilter' = newScenarioIndexFilterToRetain(index)
    /\ ipc' = "Filter"
    /\ UNCHANGED <<specItems, removed>> /\ OutsideIndex

\* The specification calls Filter on its next item.
index_Filter ==
    /\ ipc = "Filter" /\ Len(removed) < Len(specItems)
    /\ LET r == scenarioIndexFilterToRetain_Filter(ifilter, specItems[Len(removed) + 1])
       IN  /\ ifilter' = r.filter
           /\ removed' = Append(removed, r.return)
    /\ UNCHANGED <<ipc, specItems>> /\ OutsideIndex

InitIndex ==
    /\ GInit /\ TInit0 /\ AInit0 /\ DInit0 /\ PInit0 /\ SInit0 /\ RInit0
    /\ ipc = "new" /\ ifilter = NoFilter /\ specItems \in ItemLists /\ removed = << >>

NextIndex == index_New \/ index_Filter

SpecIndex == InitIndex /\ [][NextIndex]_vars

\* The number of scenarios among the first n items.
RECURSIVE ScenariosIn(_, _)
ScenariosIn(items, n) ==
    IF n = 0 THEN 0
    ELSE ScenariosIn(items, n - 1) + (IF items[n] = "ScenarioKind" THEN 1 ELSE 0)

\* C19: of the items filtered so far, a scenario is kept exactly when its
\* 0-based position among the scenarios is the filter's index, and every other
\* item is kept; if the index is not less than the number of scenarios, no
\* scenario is kept.
C19_KeepsOnlyScenarioAtIndex ==
    (ipc = "Filter") =>
        /\ \A i \in 1..Len(removed) :
              IF specItems[i] = "ScenarioKind"
              THEN ~removed[i] <=> (ScenariosIn(specItems, i - 1) = ifilter.indexToNotFilter)
              ELSE ~removed[i]
        /\ (Len(removed) = Len(specItems)
              /\ ifilter.indexToNotFilter >= ScenariosIn(specItems, Len(specItems))) =>
                 \A i \in 1..Len(removed) : specItems[i] = "ScenarioKind" => removed[i]

\* C19 witness: of three scenarios around a step, the second scenario and the
\* step are kept.
C19_SecondOfThreeKept ==
    /\ ipc = "Filter" /\ ifilter.indexToNotFilter = 1
    /\ specItems = <<"ScenarioKind", "StepKind", "ScenarioKind", "ScenarioKind">>
    /\ removed = <<TRUE, FALSE, FALSE, TRUE>>

(***************************************************************************)
(* The daemon: runAPIServiceIndefinitely (part_001:93-118)                 *)
(***************************************************************************)
\* The ports RunInBackground can pass on; with 0 the service publishes the
\* port it was given by the system.
Ports == {0, 8888}

OutsideDaemon == UNCHANGED <<gvars, tvars, avars, ivars, pvars, svars, rvars>>
Running == dpc \notin {"off", "exited"}

\* What the actions of one party of the daemon leave alone.
MainOnly == UNCHANGED <<port, populated, parentAlive, parentProcessID, adopterRunning>>
ServiceOnly ==
    UNCHANGED <<dpc, cpc, port, parentAlive, parentProcessID, adopterRunning, killed, fatal>>
CheckerOnly ==
    UNCHANGED <<dpc, spc, port, populated, parentAlive, adopterRunning, RunnerChan, killed,
                fatal>>

\* part_001:94-95: go StartAPIService(port, startChan)
runAPIServiceIndefinitely_GoService ==
    /\ dpc = "runAPIServiceIndefinitely"
    /\ dpc' = "go_checkParentIsAlive"
    /\ spc' = "NewGaugeConnectionHandler"
    /\ UNCHANGED <<cpc, RunnerChan, ErrorChan, killed, fatal>>
    /\ MainOnly /\ OutsideDaemon

\* part_001:96: go checkParentIsAlive(startChan)
runAPIServiceIndefinitely_GoChecker ==
    /\ dpc = "go_checkParentIsAlive"
    /\ dpc' = "select"
    /\ cpc' = "Getppid"
    /\ UNCHANGED <<spc, RunnerChan, ErrorChan, killed, fatal>>
    /\ MainOnly /\ OutsideDaemon

\* part_001:100-102: the select receives the runner; the sender goes on.
select_RunnerChan ==
    /\ dpc = "select" /\ RunnerChan # {}
    /\ RunnerChan' = {}
    /\ spc' = "returned"
    /\ dpc' = "Kill"
    /\ UNCHANGED <<cpc, ErrorChan, killed, fatal>>
    /\ MainOnly /\ OutsideDaemon

\* part_001:102: runner.Kill(), then the next round of the loop.
runner_Kill ==
    /\ dpc = "Kill"
    /\ killed' = TRUE
    /\ dpc' = "select"
    /\ UNCHANGED <<spc, cpc, RunnerChan, ErrorChan, fatal>>
    /\ MainOnly /\ OutsideDaemon

\* part_001:103-104: the select receives an error; logger.Fatalf ends the process.
select_ErrorChan ==
    /\ dpc = "select"
    /\ \E sender \in ErrorChan :
          /\ ErrorChan' = ErrorChan \ {sender}
          /\ fatal' = sender
          /\ spc' = IF sender = "StartAPIService" THEN "returned" ELSE spc
          /\ cpc' = IF sender = "checkParentIsAlive" THEN "returned" ELSE cpc
    /\ dpc' = "exited"
    /\ UNCHANGED <<RunnerChan, killed>>
    /\ MainOnly /\ OutsideDaemon

\* A step of StartAPIService that can fail: on failure the error is sent on
\* ErrorChan and StartAPIService returns once it has been received.
ServiceStep(at, next) ==
    /\ Running /\ spc = at
    /\ \/ spc' = next /\ UNCHANGED ErrorChan
       \/ spc' = "send_ErrorChan" /\ ErrorChan' = ErrorChan \cup {"StartAPIService"}
    /\ UNCHANGED <<RunnerChan, populated>>
    /\ ServiceOnly /\ OutsideDaemon

\* part_001:58-62
daemon_NewGaugeConnectionHandler ==
    /\ ServiceStep("NewGaugeConnectionHandler",
                   IF port = 0 THEN "SetEnvVariable" ELSE "HandleMultipleConnections")

\* part_001:63-68
daemon_SetEnvVariable ==
    /\ ServiceStep("SetEnvVariable", "HandleMultipleConnections")

\* part_001:69
daemon_HandleMultipleConnections ==
    /\ Running /\ spc = "HandleMultipleConnections"
    /\ spc' = "connectToRunner"
    /\ UNCHANGED <<RunnerChan, ErrorChan, populated>>
    /\ ServiceOnly /\ OutsideDaemon

\* A service that hands on the runner as soon as it is connected.
daemon_connectToRunner_SendingRunner ==
    /\ Running /\ spc = "connectToRunner"
    /\ \/ /\ spc' = "send_RunnerChan" /\ RunnerChan' = RunnerChan \cup {"StartAPIService"}
          /\ UNCHANGED ErrorChan
       \/ /\ spc' = "send_ErrorChan" /\ ErrorChan' = ErrorChan \cup {"StartAPIService"}
          /\ UNCHANGED RunnerChan
    /\ UNCHANGED populated
    /\ ServiceOnly /\ OutsideDaemon

\* part_001:70-74
daemon_connectToRunner ==
    /\ ServiceStep("connectToRunner", "MakeListOfAvailableSteps")

\* part_001:75-76: the gatherer's initial population, as one step, and the
\* send of the runner that follows it.
daemon_MakeListOfAvailableSteps ==
    /\ Running /\ spc = "MakeListOfAvailableSteps"
    /\ populated' = TRUE
    /\ spc' = "send_RunnerChan"
    /\ RunnerChan' = RunnerChan \cup {"StartAPIService"}
    /\ UNCHANGED ErrorChan
    /\ ServiceOnly /\ OutsideDaemon

\* part_001:110: os.Getppid() is the parent while it runs, and afterwards the
\* process that has adopted the daemon.
checkParentIsAlive_Getppid ==
    /\ Running /\ cpc = "Getppid"
    /\ parentProcessID' = IF parentAlive THEN "parent" ELSE "adopter"
    /\ cpc' = "IsProcessRunning"
    /\ UNCHANGED ErrorChan
    /\ CheckerOnly /\ OutsideDaemon

\* util.IsProcessRunning of the pid that checkParentIsAlive holds.
IsProcessRunning(pid) == IF pid = "parent" THEN parentAlive ELSE adopterRunning

\* part_001:112-115
checkParentIsAlive_IsProcessRunning ==
    /\ Running /\ cpc = "IsProcessRunning"
    /\ IF ~IsProcessRunning(parentProcessID)
         THEN /\ ErrorChan' = ErrorChan \cup {"checkParentIsAlive"}
              /\ cpc' = "send_ErrorChan"
         ELSE /\ cpc' = "Sleep" /\ UNCHANGED ErrorChan
    /\ UNCHANGED parentProcessID
    /\ CheckerOnly /\ OutsideDaemon

\* part_001:116
checkParentIsAlive_Sleep ==
    /\ Running /\ cpc = "Sleep"
    /\ cpc' = "IsProcessRunning"
    /\ UNCHANGED <<ErrorChan, parentProcessID>>
    /\ CheckerOnly /\ OutsideDaemon

\* The process that started the daemon terminates.
parent_Terminates ==
    /\ Running /\ parentAlive
    /\ parentAlive' = FALSE
    /\ UNCHANGED <<dpc, spc, cpc, port, populated, parentProcessID, adopterRunning,
                   RunnerChan, ErrorChan, killed, fatal>>
    /\ OutsideDaemon

DaemonMain ==
    \/ runAPIServiceIndefinitely_GoService
    \/ runAPIServiceIndefinitely_GoChecker
    \/ select_RunnerChan
    \/ runner_Kill
    \/ select_ErrorChan

DaemonChecker ==
    \/ checkParentIsAlive_Getppid
    \/ checkParentIsAlive_IsProcessRunning
    \/ checkParentIsAlive_Sleep

InitDaemon ==
    /\ GInit /\ TInit0 /\ AInit0 /\ IInit0 /\ PInit0 /\ SInit0 /\ RInit0
    /\ dpc = "runAPIServiceIndefinitely" /\ spc = "idle" /\ cpc = "idle"
    /\ port \in Ports /\ populated = FALSE
    /\ parentAlive = TRUE /\ parentProcessID = "" /\ adopterRunning \in BOOLEAN
    /\ RunnerChan = {} /\ ErrorChan = {} /\ killed = FALSE /\ fatal = ""

NextDaemon ==
    \/ runAPIServiceIndefinitely_GoService
    \/ runAPIServiceIndefinitely_GoChecker
    \/ select_RunnerChan
    \/ runner_Kill
    \/ select_ErrorChan
    \/ daemon_NewGaugeConnectionHandler
    \/ daemon_SetEnvVariable
    \/ daemon_HandleMultipleConnections
    \/ daemon_connectToRunner
    \/ daemon_MakeListOfAvailableSteps
    \/ checkParentIsAlive_Getppid
    \/ checkParentIsAlive_IsProcessRunning
    \/ checkParentIsAlive_Sleep
    \/ parent_Terminates

\* The main goroutine and the supervisor run when they can; StartAPIService may
\* take any time over any of its steps.
FairDaemon ==
    /\ InitDaemon /\ [][NextDaemon]_vars
    /\ WF_vars(DaemonMain) /\ WF_vars(DaemonChecker)

\* C20: once the parent process has terminated, the daemon ends with a fatal error.
C20_ParentDeathIsFatal == (Running /\ ~parentAlive) ~> (dpc = "exited" /\ fatal # "")

\* The same for a parent that terminates after checkParentIsAlive has read its pid.
ParentDeathSeenIsFatal ==
    (Running /\ ~parentAlive /\ parentProcessID = "parent") ~> (dpc = "exited" /\ fatal # "")

\* C20 witness: the parent has terminated while StartAPIService was blocked
\* sending the runner, and the daemon has ended with the supervisor's error.
C20_AbortedWhileSendingRunner ==
    /\ dpc = "exited" /\ fatal = "checkParentIsAlive" /\ ~parentAlive
    /\ spc = "send_RunnerChan" /\ RunnerChan # {}

(***************************************************************************)
(* Claims about the API message handler                                    *)
(***************************************************************************)
\* A decoded message of a type the switch has no case for is being answered.
AnsweringOtherType ==
    /\ apc = "sendMessage" /\ bytesRead.ok
    /\ apiMessage.MessageType \notin RequestTypes

\* C21: a decoded message of an unsupported type is answered with the
\* unsupported-message response carrying the request's MessageId, and never
\* with an error response.
C21_UnsupportedIsNotAnError ==
    /\ AnsweringOtherType =>
          /\ responseMessage.MessageType = "UnsupportedApiMessageResponse"
          /\ responseMessage.MessageId = apiMessage.MessageId
    /\ (apc = "getErrorMessage" /\ bytesRead.ok) => apiMessage.MessageType \in RequestTypes

\* C21 witness: the second request on a connection is of an unsupported type
\* and its response is ready.
C21_UnsupportedAnswered ==
    /\ AnsweringOtherType /\ Len(connection) = 1
    /\ responseMessage.MessageType = "UnsupportedApiMessageResponse"
    /\ responseMessage.MessageId = MaxId

(***************************************************************************)
(* The parallel execution: stream count and aggregation of suite results   *)
(***************************************************************************)
MaxRequested == 17
MaxSpecs == 6
MaxStreams == 3

\* The suite results a stream can end with; i is the stream's number.  The
\* spec results, hook failures and skipped specs of stream i are numbered by i.
ResultShapes ==
    {"failed", "passed3", "passed5", "unhandledFailed", "unhandled", "empty",
     "preSuite", "postSuite", "hooksAndErrors"}

StreamExecError(specsSkipped, message) == [specsSkipped |-> specsSkipped, message |-> message]

SpecResultsOf(i) == <<[stream |-> i, n |-> 1], [stream |-> i, n |-> 2]>>

MakeResult(i, shape) ==
    CASE shape = "failed" ->
           [NoSuiteResult EXCEPT !.ExecutionTime = 1, !.SpecsFailedCount = 1,
                                 !.IsFailed = TRUE, !.SpecResults = SpecResultsOf(i)]
      [] shape = "passed3" ->
           [NoSuiteResult EXCEPT !.ExecutionTime = 3, !.SpecResults = SpecResultsOf(i)]
      [] shape = "passed5" ->
           [NoSuiteResult EXCEPT !.ExecutionTime = 5, !.SpecResults = SpecResultsOf(i)]
      [] shape = "unhandledFailed" ->
           [NoSuiteResult EXCEPT !.IsFailed = TRUE,
              !.UnhandledErrors =
                  <<StreamExecError(<<2 * i - 1, 2 * i>>, "Runner failed to start")>>]
      [] shape = "unhandled" ->
           [NoSuiteResult EXCEPT
              !.UnhandledErrors =
                  <<StreamExecError(<<2 * i - 1, 2 * i>>, "Runner failed to start")>>]
      [] shape = "preSuite" -> [NoSuiteResult EXCEPT !.PreSuite = i]
      [] shape = "postSuite" -> [NoSuiteResult EXCEPT !.PostSuite = i]
      [] shape = "hooksAndErrors" ->
           [NoSuiteResult EXCEPT !.ExecutionTime = 2, !.IsFailed = TRUE,
              !.PreSuite = i, !.PostSuite = i,
              !.UnhandledErrors =
                  <<StreamExecError(<<2 * i - 1>>, "Runner failed to start"),
                    StreamExecError(<<2 * i>>, "Runner died")>>]
      [] OTHER -> NoSuiteResult

SuiteResultLists ==
    UNION {{[i \in 1..n |-> MakeResult(i, shapes[i])] : shapes \in [1..n -> ResultShapes]} :
             n \in 0..MaxStreams}

\* A stream count that is never reduced.
getNumberOfStreamsAsRequested(requested, size) == requested

\* parallelExecution.getNumberOfStreams: the requested number of streams, or
\* the number of specs if that is smaller.
getNumberOfStreams(requested, size) == IF requested > size THEN size ELSE requested

\* An aggregation step in which a stream's hook failure never replaces one
\* already recorded.
AggregateOneFirstHookWins(aggregate, suiteResult) ==
    [aggregate EXCEPT
        !.ExecutionTime = @ + suiteResult.ExecutionTime,
        !.SpecsFailedCount = @ + suiteResult.SpecsFailedCount,
        !.SpecResults = @ \o suiteResult.SpecResults,
        !.IsFailed = @ \/ suiteResult.IsFailed,
        !.PreSuite = IF @ = 0 THEN suiteResult.PreSuite ELSE @,
        !.PostSuite = IF @ = 0 THEN suiteResult.PostSuite ELSE @,
        !.UnhandledErrors = @ \o suiteResult.UnhandledErrors]

\* An aggregation step that counts one spec result per stream.
AggregateOneResultPerStream(aggregate, suiteResult) ==
    [aggregate EXCEPT
        !.ExecutionTime = @ + suiteResult.ExecutionTime,
        !.SpecsFailedCount = @ + suiteResult.SpecsFailedCount,
        !.SpecResults = IF suiteResult.SpecResults = << >> THEN @
                        ELSE Append(@, suiteResult.SpecResults[1]),
        !.IsFailed = @ \/ suiteResult.IsFailed,
        !.PreSuite = IF suiteResult.PreSuite # 0 THEN suiteResult.PreSuite ELSE @,
        !.PostSuite = IF suiteResult.PostSuite # 0 THEN suiteResult.PostSuite ELSE @,
        !.UnhandledErrors = @ \o suiteResult.UnhandledErrors]

\* An aggregation step that keeps one unhandled error per stream.
AggregateOneFirstErrorOnly(aggregate, suiteResult) ==
    [aggregate EXCEPT
        !.ExecutionTime = @ + suiteResult.ExecutionTime,
        !.SpecsFailedCount = @ + suiteResult.SpecsFailedCount,
        !.SpecResults = @ \o suiteResult.SpecResults,
        !.IsFailed = @ \/ suiteResult.IsFailed,
        !.PreSuite = IF suiteResult.PreSuite # 0 THEN suiteResult.PreSuite ELSE @,
        !.PostSuite = IF suiteResult.PostSuite # 0 THEN suiteResult.PostSuite ELSE @,
        !.UnhandledErrors = IF suiteResult.UnhandledErrors = << >> THEN @
                            ELSE Append(@, suiteResult.UnhandledErrors[1])]

\* One round of aggregateResults' loop over the streams' results.
AggregateOne(aggregate, suiteResult) ==
    [aggregate EXCEPT
        !.ExecutionTime = @ + suiteResult.ExecutionTime,
        !.SpecsFailedCount = @ + suiteResult.SpecsFailedCount,
        !.SpecResults = @ \o suiteResult.SpecResults,
        !.IsFailed = @ \/ suiteResult.IsFailed,
        !.PreSuite = IF suiteResult.PreSuite # 0 THEN suiteResult.PreSuite ELSE @,
        !.PostSuite = IF suiteResult.PostSuite # 0 THEN suiteResult.PostSuite ELSE @,
        !.UnhandledErrors = @ \o suiteResult.UnhandledErrors]

OutsideStreams == UNCHANGED <<gvars, tvars, avars, ivars, dvars, svars, rvars>>

exec_getNumberOfStreams ==
    /\ ppc = "getNumberOfStreams"
    /\ nStreams' = getNumberOfStreams(numberOfExecutionStreams, specs)
    /\ ppc' = "done"
    /\ UNCHANGED <<numberOfExecutionStreams, specs, specErrs, suiteResults, resultIndex,
                   aggregateResult>>
    /\ OutsideStreams

aggregateResults_Start ==
    /\ ppc = "aggregateResults"
    /\ aggregateResult' = NoSuiteResult
    /\ resultIndex' = 0
    /\ ppc' = "aggregateResults_loop"
    /\ UNCHANGED <<numberOfExecutionStreams, specs, specErrs, nStreams, suiteResults>>
    /\ OutsideStreams

aggregateResults_Loop ==
    /\ ppc = "aggregateResults_loop" /\ resultIndex < Len(suiteResults)
    /\ aggregateResult' = AggregateOne(aggregateResult, suiteResults[resultIndex + 1])
    /\ resultIndex' = resultIndex + 1
    /\ UNCHANGED <<ppc, numberOfExecutionStreams, specs, specErrs, nStreams, suiteResults>>
    /\ OutsideStreams

aggregateResults_Return ==
    /\ ppc = "aggregateResults_loop" /\ resultIndex = Len(suiteResults)
    /\ aggregateResult' = [aggregateResult EXCEPT !.SpecsSkippedCount = specErrs]
    /\ ppc' = "done"
    /\ UNCHANGED <<numberOfExecutionStreams, specs, specErrs, nStreams, suiteResults,
                   resultIndex>>
    /\ OutsideStreams

InitStreams ==
    /\ GInit /\ TInit0 /\ AInit0 /\ IInit0 /\ DInit0 /\ SInit0 /\ RInit0
    /\ ppc \in {"getNumberOfStreams", "aggregateResults"}
    /\ numberOfExecutionStreams \in
          IF ppc = "getNumberOfStreams" THEN 0..MaxRequested ELSE {0}
    /\ specs \in IF ppc = "getNumberOfStreams" THEN 0..MaxSpecs ELSE {0}
    /\ suiteResults \in IF ppc = "aggregateResults" THEN SuiteResultLists ELSE {<< >>}
    /\ specErrs \in IF ppc = "aggregateResults" THEN {0, 1} ELSE {0}
    /\ nStreams = 0 /\ resultIndex = 0 /\ aggregateResult = NoSuiteResult

NextStreams ==
    \/ exec_getNumberOfStreams
    \/ aggregateResults_Start
    \/ aggregateResults_Loop
    \/ aggregateResults_Return

SpecStreams == InitStreams /\ [][NextStreams]_vars

(***************************************************************************)
(* Claims about the parallel execution                                     *)
(***************************************************************************)
Min(a, b) == IF a <= b THEN a ELSE b

\* C22: for N requested streams and K specs, getNumberOfStreams returns the
\* smaller of N and K, and 0 when there is no spec.
C22_StreamsAreMinOfRequestedAndSpecs ==
    (ppc = "done") =>
        /\ nStreams = Min(numberOfExecutionStreams, specs)
        /\ specs = 0 => nStreams = 0

\* C22 witness: 10 streams requested for 6 specs give 6 streams.
C22_TenRequestedForSixSpecs ==
    /\ ppc = "done" /\ numberOfExecutionStreams = 10 /\ specs = 6 /\ nStreams = 6

\* The sum of a number per result over the first n results.
RECURSIVE SumOver(_, _, _)
SumOver(results, n, field) ==
    IF n = 0 THEN 0
    ELSE SumOver(results, n - 1, field)
           + (CASE field = "ExecutionTime" -> results[n].ExecutionTime
                [] field = "SpecsFailedCount" -> results[n].SpecsFailedCount
                [] field = "SpecResults" -> Len(results[n].SpecResults)
                [] OTHER -> Len(results[n].UnhandledErrors))

\* aggregateResults is in its loop or has returned.
Aggregating == ppc \in {"aggregateResults_loop", "done"} /\ resultIndex <= Len(suiteResults)

\* C23: the aggregate's ExecutionTime and SpecsFailedCount are the sums over
\* the streams, and it has as many SpecResults as the streams have together.
C23_AggregateSums ==
    Aggregating =>
        /\ aggregateResult.ExecutionTime = SumOver(suiteResults, resultIndex, "ExecutionTime")
        /\ aggregateResult.SpecsFailedCount =
              SumOver(suiteResults, resultIndex, "SpecsFailedCount")
        /\ Len(aggregateResult.SpecResults) = SumOver(suiteResults, resultIndex, "SpecResults")

\* C23 witness: the three results of TestAggregationOfSuiteResult, aggregated.
C23_ThreeStreamsAggregated ==
    /\ ppc = "done"
    /\ suiteResults = <<MakeResult(1, "failed"), MakeResult(2, "passed3"),
                        MakeResult(3, "passed5")>>
    /\ aggregateResult.ExecutionTime = 9 /\ aggregateResult.SpecsFailedCount = 1
    /\ Len(aggregateResult.SpecResults) = 6 /\ aggregateResult.IsFailed

\* The unhandled errors of the first n results, in stream order.
RECURSIVE ErrorsOf(_, _)
ErrorsOf(results, n) ==
    IF n = 0 THEN << >> ELSE ErrorsOf(results, n - 1) \o results[n].UnhandledErrors

\* C24: the aggregate's UnhandledErrors are the streams' unhandled errors in
\* stream order, each as its stream recorded it; a stream without unhandled
\* errors adds none.
C24_UnhandledErrorsConcatenated ==
    Aggregating =>
        /\ aggregateResult.UnhandledErrors = ErrorsOf(suiteResults, resultIndex)
        /\ Len(aggregateResult.UnhandledErrors)
              = SumOver(suiteResults, resultIndex, "UnhandledErrors")

\* C24 witness: the three results of
\* TestAggregationOfSuiteResultWithUnhandledErrors, aggregated.
C24_TwoStreamErrorsKept ==
    /\ ppc = "done" /\ specErrs = 1
    /\ suiteResults = <<MakeResult(1, "unhandledFailed"), MakeResult(2, "unhandled"),
                        MakeResult(3, "empty")>>
    /\ Len(aggregateResult.UnhandledErrors) = 2
    /\ aggregateResult.UnhandledErrors[1].specsSkipped = <<1, 2>>
    /\ aggregateResult.UnhandledErrors[2].specsSkipped = <<3, 4>>
    /\ aggregateResult.SpecsSkippedCount = 1

\* The last of the first n results that carries the hook failure, 0 for none.
LastWith(results, n, hook) ==
    LET with == {i \in 1..n : (IF hook = "PreSuite" THEN results[i].PreSuite
                                                    ELSE results[i].PostSuite) # 0}
    IN  IF with = {} THEN 0 ELSE CHOOSE i \in with : \A j \in with : j <= i

\* C25: the aggregate's PreSuite is the PreSuite hook failure of the last stream
\* that has one, and nil when no stream has one; PostSuite likewise.
C25_LastHookFailureWins ==
    Aggregating =>
        LET pre == LastWith(suiteResults, resultIndex, "PreSuite")
            post == LastWith(suiteResults, resultIndex, "PostSuite")
        IN  /\ aggregateResult.PreSuite = IF pre = 0 THEN 0 ELSE suiteResults[pre].PreSuite
            /\ aggregateResult.PostSuite = IF post = 0 THEN 0 ELSE suiteResults[post].PostSuite

\* C25 witness: the three results of TestAggregationOfSuiteResultWithHook,
\* aggregated.
C25_SecondPreSuiteThirdPostSuite ==
    /\ ppc = "done"
    /\ suiteResults = <<MakeResult(1, "preSuite"), MakeResult(2, "preSuite"),
                        MakeResult(3, "postSuite")>>
    /\ aggregateResult.PreSuite = 2 /\ aggregateResult.PostSuite = 3

(***************************************************************************)
(* Claims about the initial population of the steps cache                  *)
(***************************************************************************)
\* The three step sources initStepsCache has collected, in the order of the
\* merge: implemented steps, steps from concepts, steps from specs.
StepSources ==
    <<IF mloc.err THEN << >> ELSE getParsedStepValues(RunnerSteps),
      mloc.stepsFromConcepts, mloc.stepsFromSpecs>>

\* The first of the three sources that has the signature.
EarliestSource(sig) ==
    StepSources[CHOOSE n \in 1..3 :
                   /\ sig \in Signatures(StepSources[n])
                   /\ \A k \in 1..(n - 1) : sig \notin Signatures(StepSources[k])]

\* initStepsCache has added the merged steps and has not returned yet.
StepsMerged == mpc = "t_done"

\* C26: after the merge, the StepValue kept for a signature is the one of the
\* earliest source that has it: implemented steps before steps from concepts
\* before steps from specs.
C26_EarliestSourceKept ==
    StepsMerged =>
        \A sig \in UNION {Signatures(StepSources[n]) : n \in 1..3} :
            /\ sig \in DOMAIN stepsCache.m
            /\ \E i \in DOMAIN EarliestSource(sig) : stepsCache.m[sig] = EarliestSource(sig)[i]

\* C26 witness: the runner, a concept and a spec all have the step s, and the
\* runner's is kept.
C26_ImplementedBeforeConceptBeforeSpec ==
    /\ StepsMerged /\ ~mloc.err
    /\ \A n \in 1..3 : RunnerSteps[1].sig \in Signatures(StepSources[n])
    /\ stepsCache.m[RunnerSteps[1].sig].Args = RunnerSteps[1].arg

(***************************************************************************)
(* Claims about the responses on one connection                            *)
(***************************************************************************)
\* The type of the response a handler gives when it does not fail.
ResponseTypeOf(messageType) ==
    CASE messageType = "GetProjectRootRequest" -> "GetProjectRootResponse"
      [] messageType = "GetInstallationRootRequest" -> "GetInstallationRootResponse"
      [] messageType = "GetAllStepsRequest" -> "GetAllStepResponse"
      [] messageType = "GetAllSpecsRequest" -> "GetAllSpecsResponse"
      [] messageType = "GetStepValueRequest" -> "GetStepValueResponse"
      [] messageType = "GetLanguagePluginLibPathRequest" -> "GetLanguagePluginLibPathResponse"
      [] messageType = "GetAllConceptsRequest" -> "GetAllConceptsResponse"
      [] messageType = "PerformRefactoringRequest" -> "PerformRefactoringResponse"
      [] messageType = "ExtractConceptRequest" -> "ExtractConceptResponse"
      [] messageType = "FormatSpecsRequest" -> "FormatSpecsResponse"
      [] OTHER -> "UnsupportedApiMessageResponse"

\* The response is one to the input: an error response to bytes that are no
\* message; to a message its own kind of response or an error response, with
\* the message's id unless the language handler failed.
Answers(response, input) ==
    IF ~input.ok THEN response.MessageType = "ErrorResponse"
    ELSE /\ response.MessageType \in {ResponseTypeOf(input.message.MessageType), "ErrorResponse"}
         /\ \/ response.MessageId = input.message.MessageId
            \/ /\ input.message.MessageType = "GetLanguagePluginLibPathRequest"
               /\ response.MessageType = "ErrorResponse"

\* The number of calls of MessageBytesReceived that have returned.
CallsReturned == IF apc = "idle" THEN Len(received) ELSE Len(received) - 1

\* C27: every call of MessageBytesReceived that has returned has written
\* exactly one response to the connection, a call still running has written
\* none, and the i-th response on the connection answers the i-th input
\* received, decodable or not.
C27_OneResponsePerCallInOrder ==
    /\ Len(connection) = CallsReturned
    /\ \A i \in DOMAIN connection : Answers(connection[i], received[i])

\* C27 witness: two calls have returned, the first for undecodable bytes and
\* the second for a request with the largest id; the connection holds the
\* error response and then the answer with that id.
C27_UndecodableThenRequestAnswered ==
    /\ apc = "idle" /\ Len(received) = 2 /\ Len(connection) = 2
    /\ ~received[1].ok /\ received[2].ok
    /\ received[2].message.MessageId = MaxId
    /\ connection[1].MessageType = "ErrorResponse"
    /\ connection[2].MessageType = "GetProjectRootResponse"
    /\ connection[2].MessageId = MaxId

(***************************************************************************)
(* Termination of the evaluation                                           *)
(***************************************************************************)
\* One call of Filter or of validateTagExpression that keeps running while it
\* has a step to take.
\* The calls start on short expressions: a tag, a negated tag, a disjunction
\* without its second operand, and groups that are opened and never closed.
GroupExps ==
    {TagX, <<"!">> \o TagX, TagX \o <<"|">>, NotOpen \o TagX, NotOpen, TagX \o NotOpen}
TInitGroups ==
    /\ TInit
    /\ tagExp \in GroupExps
    /\ mode = "Filter" =>
          (item \in {Scenario(<<TagX>>), UntaggedScenario, StepItem} /\ specTags = << >>)
InitGroups == GInit /\ TInitGroups /\ XInit0
FairTags == InitGroups /\ [][NextTags]_vars /\ WF_vars(NextTags)

\* C28: for every expression over tag names and operator characters, well
\* formed or not, the evaluation terminates: the loop of handleNegation over
\* the remaining "!(" substrings is left and the call returns.
C28_EvaluationTerminates == <>(tpc = "done")

\* C28 witness: handleNegation's loop is at an expression whose "!(" has no
\* matching ")", which evaluateBrackets returns as it is.
C28_UnclosedGroupUnchanged ==
    /\ tpc = "handleNegation_loop"
    /\ tagExp = NotOpen \o TagX
    /\ Contains(expToBeEvaluated, NotOpen)
    /\ evaluateBrackets(expToBeEvaluated) = expToBeEvaluated

(***************************************************************************)
(* One filter instance applied to the items of a specification             *)
(***************************************************************************)
MaxCalls == 2

\* Expressions with single, doubled and tripled operators, and a negated group.
Amp == <<"&">>
Bar == <<"|">>
SeqExps ==
    {TagX, <<"!">> \o TagX,
     TagX \o Amp \o TagY, TagX \o Amp \o Amp \o TagY, TagX \o Amp \o Amp \o Amp \o TagY,
     TagX \o Bar \o TagY, TagX \o Bar \o Bar \o TagY, TagX \o Bar \o Bar \o Bar \o TagY,
     TagX \o <<",">> \o TagY, Negated(TagX)}
SeqItems ==
    {Scenario(<<TagX, TagY>>), Scenario(<<TagX>>), Scenario(<<TagY>>), UntaggedScenario,
     StepItem}

TInitSeq ==
    /\ mode \in {"Filter", "validate"}
    /\ tpc = IF mode = "Filter" THEN "Filter" ELSE "validateTagExpression"
    /\ tagExp \in SeqExps
    /\ tagExpression = tagExp
    /\ item \in IF mode = "Filter" THEN SeqItems ELSE {[Kind |-> "none"]}
    /\ specTags \in IF mode = "Filter" THEN SpecTagValues ELSE {<< >>}
    /\ tagsMap = {} /\ expToBeEvaluated = << >> /\ value = FALSE /\ err = FALSE
    /\ result = ""

\* part_000:205: spec.Filter hands the same filter the next item of the
\* specification; the call's locals start afresh, filter.tagExpression is
\* what the last call left.
Filter_NextItem ==
    /\ tpc = "done" /\ mode = "Filter"
    /\ Len(decisions) + 1 < MaxCalls
    /\ decisions' = Append(decisions, [scenario |-> item.Kind = "ScenarioKind",
                                       tags |-> tagsMap, result |-> result])
    /\ \E next \in SeqItems : item' = next
    /\ tpc' = "Filter"
    /\ tagsMap' = {} /\ expToBeEvaluated' = << >> /\ value' = FALSE /\ err' = FALSE
    /\ result' = ""
    /\ UNCHANGED <<gvars, avars, ivars, dvars, pvars, rvars, specTags, tagExp, tagExpression,
                   mode>>

InitSeq == GInit /\ TInitSeq /\ XInit0

NextSeq ==
    \/ Filter
    \/ filterTags_replaceSpecialChar
    \/ validateTagExpression
    \/ formatAndEvaluateExpression
    \/ handleNegation
    \/ handleNegation_Loop
    \/ handleNegation_Return
    \/ Filter_Return
    \/ validateTagExpression_Return
    \/ Filter_NextItem

SpecSeq == InitSeq /\ [][NextSeq]_vars

\* A call of Filter on a scenario has returned.
ScenarioDecided == tpc = "done" /\ mode = "Filter" /\ item.Kind = "ScenarioKind"

\* C29: a filter instance gives a scenario the decision it gave every earlier
\* scenario with the same effective tags, however many items it has filtered
\* before.
C29_SameTagsSameDecision ==
    ScenarioDecided =>
        \A i \in DOMAIN decisions :
            (decisions[i].scenario /\ decisions[i].tags = tagsMap)
                => decisions[i].result = result

\* C29 witness: the second call on an instance has kept a scenario tagged x
\* and y, as the first call did, and the stored expression has been
\* normalised from "x,y".
C29_SecondCallAgrees ==
    /\ ScenarioDecided /\ Len(decisions) = 1
    /\ tagExp = TagX \o <<",">> \o TagY /\ tagExpression = TagX \o Amp \o TagY
    /\ tagsMap = {TagX, TagY} /\ decisions[1].tags = tagsMap
    /\ decisions[1].scenario /\ decisions[1].result = "false" /\ result = "false"

(***************************************************************************)
(* Event handlers and the initial population                               *)
(***************************************************************************)
\* Where the initialising task is once initSpecsCache, initConceptsCache and
\* initStepsCache have made and filled their cache.
AfterInitSpecsCache ==
    {"t_make", "t_specs", "t_specs_read", "t_concepts", "t_concepts_read", "t_implemented",
     "t_lock", "t_add", "t_done", "done"}
AfterInitConceptsCache == {"s_make", "s_parse", "s_loop", "s_add"} \cup AfterInitSpecsCache
AfterInitStepsCache == {"t_done", "done"}

Populated(cache) ==
    CASE cache = "conceptsCache" -> mpc \in AfterInitConceptsCache
      [] cache = "specsCache" -> mpc \in AfterInitSpecsCache
      [] cache = "stepsCache" -> mpc \in AfterInitStepsCache

\* C30: in every interleaving, the cache a watcher event handler is about to
\* touch has been created and populated by the initialisation, so no handler
\* writes to an unallocated cache and no handler's entry is discarded by the
\* initial population.
C30_HandlersAfterPopulation ==
    \A a \in Access("events") : Populated(a[1])

\* C30 witness: the handler of a spec file event is about to store its
\* specification, after the initial population of all three caches.
C30_HandlerAfterInit ==
    /\ epc = "sm_add" /\ mpc = "done"
    /\ specsCache.alloc /\ stepsCache.alloc /\ conceptsCache.alloc

(***************************************************************************)
(* Claims about StartAPIService in the daemon                              *)
(***************************************************************************)
\* StartAPIService has failed: it is sending its error, or the daemon has
\* ended with it.
ServiceFailed == spc = "send_ErrorChan" \/ fatal = "StartAPIService"

\* C31: the runner is offered on RunnerChan, received and killed only after
\* MakeListOfAvailableSteps has returned; when creating the connection
\* handler, publishing the port or connecting to the runner fails, the error
\* is sent on ErrorChan and no runner is sent, received or killed.
C31_RunnerSentAfterPopulation ==
    /\ (RunnerChan # {} \/ dpc = "Kill" \/ killed) => populated
    /\ ServiceFailed =>
          /\ "StartAPIService" \in ErrorChan \/ fatal = "StartAPIService"
          /\ RunnerChan = {} /\ dpc # "Kill" /\ ~killed /\ ~populated

\* C31 witness: the daemon has received the runner from StartAPIService after
\* the initial population and has killed it.
C31_RunnerKilledAfterPopulation ==
    /\ killed /\ populated /\ spc = "returned" /\ dpc = "select" /\ RunnerChan = {}

(***************************************************************************)
(* The colored console reporter (reporter/coloredConsole.go)               *)
(***************************************************************************)
MaxDepth == 3

\* scenarioIndentation and stepIndentation are constants of the reporter
\* package declared outside coloredConsole.go; indent repeats a space that
\* many times, so they are not negative.
IndentWidths == {0, 2, 4}

Nested == {"Scenario", "Step", "Concept"}
Innermost == IF started = << >> THEN "none" ELSE started[Len(started)]
Ended == SubSeq(started, 1, Len(started) - 1)

OutsideConsole == UNCHANGED <<gvars, tvars, avars, ivars, dvars, pvars, svars>>
Build == UNCHANGED <<Verbose, scenarioIndentation, stepIndentation>>

\* coloredConsole.go:150-153
resetBuffers == -1

\* coloredConsole.go:42-47
SpecStart ==
    /\ reported' = "SpecStart"
    /\ UNCHANGED <<indentation, headingBuffer, started>> /\ Build /\ OutsideConsole

\* coloredConsole.go:49-52
SpecEnd ==
    /\ reported' = "SpecEnd"
    /\ UNCHANGED <<indentation, headingBuffer, started>> /\ Build /\ OutsideConsole

\* coloredConsole.go:54-65
ScenarioStart ==
    /\ Len(started) < MaxDepth
    /\ indentation' = indentation + scenarioIndentation
    /\ started' = Append(started, "Scenario")
    /\ reported' = "ScenarioStart"
    /\ UNCHANGED headingBuffer /\ Build /\ OutsideConsole

\* coloredConsole.go:67-73
ScenarioEnd ==
    /\ Innermost = "Scenario"
    /\ indentation' = indentation - scenarioIndentation
    /\ started' = Ended
    /\ reported' = "ScenarioEnd"
    /\ UNCHANGED headingBuffer /\ Build /\ OutsideConsole

\* coloredConsole.go:75-85
StepStart ==
    /\ Len(started) < MaxDepth
    /\ indentation' = indentation + stepIndentation
    /\ headingBuffer' = IF Verbose THEN indentation' ELSE resetBuffers
    /\ started' = Append(started, "Step")
    /\ reported' = "StepStart"
    /\ Build /\ OutsideConsole

\* coloredConsole.go:87-106
StepEnd ==
    /\ Innermost = "Step"
    /\ headingBuffer' = resetBuffers
    /\ indentation' = indentation - stepIndentation
    /\ started' = Ended
    /\ reported' = "StepEnd"
    /\ Build /\ OutsideConsole

\* coloredConsole.go:108-115
ConceptStart ==
    /\ Len(started) < MaxDepth
    /\ indentation' = indentation + stepIndentation
    /\ started' = Append(started, "Concept")
    /\ reported' = "ConceptStart"
    /\ UNCHANGED headingBuffer /\ Build /\ OutsideConsole

\* A concept's end that takes back a scenario's width.
ConceptEnd_ScenarioWidth ==
    /\ Innermost = "Concept"
    /\ indentation' = indentation - scenarioIndentation
    /\ started' = Ended
    /\ reported' = "ConceptEnd"
    /\ UNCHANGED headingBuffer /\ Build /\ OutsideConsole

\* coloredConsole.go:117-119
ConceptEnd ==
    /\ Innermost = "Concept"
    /\ indentation' = indentation - stepIndentation
    /\ started' = Ended
    /\ reported' = "ConceptEnd"
    /\ UNCHANGED headingBuffer /\ Build /\ OutsideConsole

\* coloredConsole.go:121-125
DataTable ==
    /\ reported' = "DataTable"
    /\ UNCHANGED <<indentation, headingBuffer, started>> /\ Build /\ OutsideConsole

\* coloredConsole.go:127-132
Error ==
    /\ reported' = "Error"
    /\ UNCHANGED <<indentation, headingBuffer, started>> /\ Build /\ OutsideConsole

\* coloredConsole.go:136-141
Write ==
    /\ reported' = "Write"
    /\ UNCHANGED <<indentation, headingBuffer, started>> /\ Build /\ OutsideConsole

\* coloredConsole.go:38-40: the zero value but for the writer.
InitConsole ==
    /\ GInit /\ TInit0 /\ AInit0 /\ IInit0 /\ DInit0 /\ PInit0 /\ SInit0
    /\ indentation = 0 /\ headingBuffer = resetBuffers
    /\ Verbose \in BOOLEAN
    /\ scenarioIndentation \in IndentWidths /\ stepIndentation \in IndentWidths
    /\ started = << >> /\ reported = "none"

NextConsole ==
    \/ SpecStart
    \/ SpecEnd
    \/ ScenarioStart
    \/ ScenarioEnd
    \/ StepStart
    \/ StepEnd
    \/ ConceptStart
    \/ ConceptEnd
    \/ DataTable
    \/ Error
    \/ Write

SpecConsole == InitConsole /\ [][NextConsole]_vars

Unindented == {"Error", "Write", "DataTable", "SpecStart", "SpecEnd"}

\* C32: over every properly nested sequence of reporter events the
\* indentation is never negative and is at its initial value, 0, whenever
\* every started scenario, step and concept has ended; Error, Write,
\* DataTable, SpecStart and SpecEnd leave it as it is.
C32_IndentationBalanced ==
    /\ [](indentation >= 0 /\ (started = << >> => indentation = 0))
    /\ [][reported' \in Unindented => indentation' = indentation]_vars

\* C32 witness: an error is reported inside a step of a concept of a
\* scenario, at the indentation of the three.
C32_ErrorInsideNestedStep ==
    /\ started = <<"Scenario", "Concept", "Step">> /\ reported = "Error"
    /\ scenarioIndentation = 2 /\ stepIndentation = 4 /\ indentation = 10
    /\ Verbose /\ headingBuffer = 10

=============================================================================
